---- MODULE Spec2Model ----
(***************************************************************************)
(* Content-suite backend: the approval workflow of creative assets, the    *)
(* multimodal audit, the journal and the indexing of brand manuals.        *)
(*                                                                         *)
(* The store is modelled by its committed tables.  A handler works on a   *)
(* session (its own copy of the tables); only db.commit() makes the        *)
(* session the store, and a handler that raises before its commit leaves   *)
(* the store as it was (get_db closes the session, which rolls it back).   *)
(*                                                                         *)
(* Spec runs the requests one after the other from the empty database;     *)
(* SpecLegacy starts from a database older than the journal; SpecRace      *)
(* lets two requests overlap; SpecRetrieve runs RagService by itself and    *)
(* SpecIndex its indexing; SpecChunk applies the chunker and SpecParse the  *)
(* parser of the audit decision to inputs of their own.                     *)
(***************************************************************************)
EXTENDS Integers, Sequences, FiniteSets, TLC

\* ------------------------------------------------------------------ bounds
MaxManuals == 1   \* rows of brand_manuals
MaxEvents == 4    \* rows of asset_journey_events, over all assets
MaxChunks == 3    \* rows of brand_manual_chunks in SpecRetrieve
MaxTopK == 3      \* the greatest top_k asked for in SpecRetrieve

\* Python's None, for string-valued and for id-valued fields
None == "None"

\* The users, one of each role; the routes admit a user by role
\* (require_roles), so each operation is called by a user of its role.
CREATOR == "creator"
APPROVER_A == "approver_a"
APPROVER_B == "approver_b"

\* ------------------------------------------------------ app/db/models.py
PENDING_A == "pending_a"
PENDING_B == "pending_b"
APPROVED == "approved"
REJECTED == "rejected"
WorkflowStatus == {PENDING_A, PENDING_B, APPROVED, REJECTED}

CHECK == "check"
FAIL == "fail"
AuditVerdict == {CHECK, FAIL}

ASSET_CREATED == "asset_created"
REVIEW_A_APPROVED == "review_a_approved"
REVIEW_A_REJECTED == "review_a_rejected"
AUDIT_CHECK == "audit_check"
AUDIT_FAIL == "audit_fail"
JourneyEventType ==
  {ASSET_CREATED, REVIEW_A_APPROVED, REVIEW_A_REJECTED, AUDIT_CHECK, AUDIT_FAIL}

\* ------------------------------------------------ app/services/workflow.py
\* a table in which an approved asset can still be rejected
AllowedTransitionsNoTerminal ==
  [s \in WorkflowStatus |->
     CASE s = PENDING_A -> {PENDING_B, REJECTED}
       [] s = PENDING_B -> {APPROVED, REJECTED}
       [] s = APPROVED -> {REJECTED}
       [] OTHER -> {}]

_ALLOWED_TRANSITIONS ==
  [s \in WorkflowStatus |->
     CASE s = PENDING_A -> {PENDING_B, REJECTED}
       [] s = PENDING_B -> {APPROVED, REJECTED}
       [] s = APPROVED -> {}
       [] OTHER -> {}]

\* a check that also admits the status the asset has
can_transition_or_stay(current, target) ==
  target = current \/ target \in _ALLOWED_TRANSITIONS[current]

\* a check that admits every target
can_transition_any(current, target) == target \in WorkflowStatus

can_transition(current, target) == target \in _ALLOWED_TRANSITIONS[current]

\* ------------------------------------------------------------------- text
\* A text is a string; its i-th character is SubSeq(s, i, i).
RECURSIVE Repeat(_, _)
Repeat(c, n) ==
  IF n = 0 THEN ""
  ELSE IF n % 2 = 1 THEN c \o Repeat(c, n - 1)
  ELSE Repeat(c \o c, n \div 2)

MinOf(S) == CHOOSE x \in S : \A y \in S : x <= y
MaxOf(S) == 0 - MinOf({0 - x : x \in S})

\* min(a, b) and max(a, b) of Python: the first argument unless the second
\* is strictly smaller (larger)
PyMin(a, b) == IF b < a THEN b ELSE a
PyMax(a, b) == IF b > a THEN b ELSE a

\* str.isspace of one character
IsSpace(c) == c \in {" ", "\n", "\t"}

\* the first position from i on, and the last one up to i, whose character
\* is no white space (Len(s) + 1 and 0 when there is none)
RECURSIVE FirstInk(_, _)
FirstInk(s, i) ==
  IF i > Len(s) THEN i
  ELSE IF IsSpace(SubSeq(s, i, i)) THEN FirstInk(s, i + 1) ELSE i

RECURSIVE LastInk(_, _)
LastInk(s, i) ==
  IF i < 1 THEN i
  ELSE IF IsSpace(SubSeq(s, i, i)) THEN LastInk(s, i - 1) ELSE i

\* str.strip()
StripTo(s, first, last) == IF first > last THEN "" ELSE SubSeq(s, first, last)
strip(s) == StripTo(s, FirstInk(s, 1), LastInk(s, Len(s)))

\* str.find(sep, start): the first position from start on at which sep
\* occurs in s, 0 if none
FirstHit(hits) == IF hits = {} THEN 0 ELSE MinOf(hits)
Find(s, sep, start) ==
  FirstHit({i \in start..(Len(s) - Len(sep) + 1) :
              SubSeq(s, i, i + Len(sep) - 1) = sep})

\* str.split(sep) from position start on: the occurrences of sep are taken
\* left to right and do not overlap; empty parts are kept.
RECURSIVE SplitFrom(_, _, _)
SplitAt(s, sep, start, i) ==
  IF i = 0 THEN <<SubSeq(s, start, Len(s))>>
  ELSE <<SubSeq(s, start, i - 1)>> \o SplitFrom(s, sep, i + Len(sep))
SplitFrom(s, sep, start) == SplitAt(s, sep, start, Find(s, sep, start))

split(s, sep) == SplitFrom(s, sep, 1)

\* sep.join(items)
RECURSIVE join(_, _)
join(sep, items) ==
  IF items = <<>> THEN ""
  ELSE IF Len(items) = 1 THEN items[1]
  ELSE items[1] \o sep \o join(sep, Tail(items))

\* --------------------------------------------- app/services/rag_service.py
DEFAULT_MAX_CHUNK_CHARS == 700

\* the loop of chunk_text over the remaining parts, with the chunks flushed
\* so far and the running buffer
RECURSIVE ChunkLoop(_, _, _, _, _)
\* a step that starts the new buffer without keeping the full one
ChunkStepDropping(parts, chunked, current, max_chars, separator, chunk_piece, candidate) ==
  IF Len(candidate) <= max_chars
  THEN ChunkLoop(Tail(parts), chunked, candidate, max_chars, separator)
  ELSE ChunkLoop(Tail(parts), chunked, chunk_piece, max_chars, separator)

\* a step that lets the candidate grow one character beyond max_chars
ChunkStepAbove(parts, chunked, current, max_chars, separator, chunk_piece, candidate) ==
  IF Len(candidate) <= max_chars + 1
  THEN ChunkLoop(Tail(parts), chunked, candidate, max_chars, separator)
  ELSE ChunkLoop(Tail(parts),
                 IF current # "" THEN Append(chunked, current) ELSE chunked,
                 chunk_piece, max_chars, separator)

\* a step that flushes already when the candidate reaches max_chars
ChunkStepBelow(parts, chunked, current, max_chars, separator, chunk_piece, candidate) ==
  IF Len(candidate) < max_chars
  THEN ChunkLoop(Tail(parts), chunked, candidate, max_chars, separator)
  ELSE ChunkLoop(Tail(parts),
                 IF current # "" THEN Append(chunked, current) ELSE chunked,
                 chunk_piece, max_chars, separator)

ChunkStep(parts, chunked, current, max_chars, separator, chunk_piece, candidate) ==
  IF Len(candidate) <= max_chars
  THEN ChunkLoop(Tail(parts), chunked, candidate, max_chars, separator)
  ELSE ChunkLoop(Tail(parts),
                 IF current # "" THEN Append(chunked, current) ELSE chunked,
                 chunk_piece, max_chars, separator)

Candidate(current, chunk_piece) ==
  IF current # "" THEN strip(current \o "\n\n" \o chunk_piece) ELSE chunk_piece

ChunkLoop(parts, chunked, current, max_chars, separator) ==
  IF parts = <<>>
  THEN IF current # "" THEN Append(chunked, current) ELSE chunked
  ELSE ChunkStep(parts, chunked, current, max_chars, separator,
                 strip(separator \o Head(parts)),
                 Candidate(current, strip(separator \o Head(parts))))

\* [part.strip() for part in raw if part.strip()]
StrippedParts(raw) ==
  SelectSeq([i \in 1..Len(raw) |-> strip(raw[i])], LAMBDA p : p # "")

\* a fallback that trims the text
OrWholeStripped(chunked, content_text) ==
  IF chunked # <<>> THEN chunked ELSE <<strip(content_text)>>

\* a chunker without the fallback to the whole text
OrNothing(chunked, content_text) == chunked

\* chunks or [content_text]
OrWhole(chunked, content_text) ==
  IF chunked # <<>> THEN chunked ELSE <<content_text>>

chunk_text(content_text, max_chars, separator) ==
  OrWhole(ChunkLoop(StrippedParts(split(content_text, separator)), <<>>, "",
                    max_chars, separator),
          content_text)

\* ------------------------------------------------------ model output text
\* The text a generation model returns is a sequence of tokens, each a
\* literal piece of text: the code fence, the word json, a white-space
\* character, a brace, a character of prose, a JSON document that is no
\* object (an array, a number), or one member of a JSON object (with the
\* comma that separates it from its neighbour).
\* the code fence, three backticks
FENCE == "<fence>"
WS == " "
LBRACE == "{"
RBRACE == "}"

\* the float that is no number (json.loads reads the literal NaN): it is
\* neither less nor greater than any float
NaN == -1000000
FloatLess(a, b) == a # NaN /\ b # NaN /\ a < b

\* min(a, b) and max(a, b) of floats: the first argument unless the second
\* is less (greater)
FloatMin(a, b) == IF FloatLess(b, a) THEN b ELSE a
FloatMax(a, b) == IF FloatLess(a, b) THEN b ELSE a

\* a clamp without its lower end
ClampFromAbove(confidence) == FloatMin(confidence, 100)

\* max(0.0, min(confidence, 1.0)), in hundredths
Clamp(confidence) == FloatMax(0, FloatMin(confidence, 100))

\* a Python value read from JSON: kind, and the string or the number
\* (in hundredths) it carries
PyStr(x) == [kind |-> "str", s |-> x, n |-> 0]
PyNum(x) == [kind |-> "num", s |-> "", n |-> x]
PyNull == [kind |-> "null", s |-> "", n |-> 0]
PyList == [kind |-> "list", s |-> "", n |-> 0]

\* the members of a JSON object that occur in outputs: token -> key, value
Members ==
  [tok \in {"\"verdict\":\"check\"", "\"verdict\":\"fail\"", "\"verdict\":\"CHECK\"",
            "\"verdict\":null", "\"verdict\":\"pass\"", "\"verdict\":1",
            "\"confidence\":0.87", "\"confidence\":1.5", "\"confidence\":-3",
            "\"confidence\":\"0.9\"", "\"confidence\":\"high\"",
            "\"confidence\":null", "\"confidence\":[]", "\"confidence\":NaN",
            "\"explanation\":\"ok\"", "\"explanation\":\"\"",
            "\"explanation\":null"} |->
     CASE tok = "\"verdict\":\"check\"" -> [key |-> "verdict", value |-> PyStr("check")]
       [] tok = "\"verdict\":\"fail\"" -> [key |-> "verdict", value |-> PyStr("fail")]
       [] tok = "\"verdict\":\"CHECK\"" -> [key |-> "verdict", value |-> PyStr("CHECK")]
       [] tok = "\"verdict\":null" -> [key |-> "verdict", value |-> PyNull]
       [] tok = "\"verdict\":\"pass\"" -> [key |-> "verdict", value |-> PyStr("pass")]
       [] tok = "\"verdict\":1" -> [key |-> "verdict", value |-> PyNum(100)]
       [] tok = "\"confidence\":0.87" -> [key |-> "confidence", value |-> PyNum(87)]
       [] tok = "\"confidence\":1.5" -> [key |-> "confidence", value |-> PyNum(150)]
       [] tok = "\"confidence\":-3" -> [key |-> "confidence", value |-> PyNum(-300)]
       [] tok = "\"confidence\":\"0.9\"" -> [key |-> "confidence", value |-> PyStr("0.9")]
       [] tok = "\"confidence\":\"high\"" -> [key |-> "confidence", value |-> PyStr("high")]
       [] tok = "\"confidence\":null" -> [key |-> "confidence", value |-> PyNull]
       [] tok = "\"confidence\":[]" -> [key |-> "confidence", value |-> PyList]
       [] tok = "\"confidence\":NaN" -> [key |-> "confidence", value |-> PyNum(NaN)]
       [] tok = "\"explanation\":\"ok\"" -> [key |-> "explanation", value |-> PyStr("ok")]
       [] tok = "\"explanation\":\"\"" -> [key |-> "explanation", value |-> PyStr("")]
       [] OTHER -> [key |-> "explanation", value |-> PyNull]]

MemberTokens == DOMAIN Members

\* JSON documents that are no object: token -> value
Scalars ==
  [tok \in {"[1]", "42"} |-> IF tok = "[1]" THEN PyList ELSE PyNum(4200)]

ScalarTokens == DOMAIN Scalars

\* strings float() reads as a number: string -> hundredths
NumericStrings == [x \in {"0.9"} |-> 90]

\* str.strip() of a token text
StripTokens(t) ==
  LET keep == {i \in 1..Len(t) : t[i] # WS}
  IN IF keep = {} THEN <<>> ELSE SubSeq(t, MinOf(keep), MaxOf(keep))

\* json.loads of a text without surrounding white space
JsonLoadsStripped(c, n) ==
  IF n = 1 /\ c[1] \in ScalarTokens
  THEN [ok |-> TRUE, dict |-> FALSE, members |-> <<>>, value |-> Scalars[c[1]]]
  ELSE IF /\ n >= 2
          /\ c[1] = LBRACE
          /\ c[n] = RBRACE
          /\ \A i \in 2..(n - 1) : c[i] \in MemberTokens \cup {WS}
  THEN [ok |-> TRUE, dict |-> TRUE,
        members |-> SelectSeq(SubSeq(c, 2, n - 1), LAMBDA x : x \in MemberTokens),
        value |-> PyNull]
  ELSE [ok |-> FALSE, dict |-> FALSE, members |-> <<>>, value |-> PyNull]

\* json.loads(t): the value, or JSONDecodeError; white space around the
\* document is allowed
JsonLoads(t) == JsonLoadsStripped(StripTokens(t), Len(StripTokens(t)))

\* dict.get(key, default) on the members of a parsed object; of a repeated
\* key the last member counts
DictGet(members, key, default) ==
  LET hits == {i \in 1..Len(members) : Members[members[i]].key = key}
  IN IF hits = {} THEN default ELSE Members[members[MaxOf(hits)]].value

\* --------------------------------------- app/services/embeddings_service.py
\* embed_text returns a vector or raises; the empty vector stands for the
\* call that raises ("Embedding provider returned no embedding", or the
\* provider's own error).
EmbedFailed == <<>>

\* ------------------------------------------------- retrieval and indexing
Dot(a, b) ==
  LET n == PyMin(Len(a), Len(b))
      Sum[i \in 0..n] == IF i = 0 THEN 0 ELSE Sum[i - 1] + a[i] * b[i]
  IN Sum[n]

\* the square of the zero-safe norm: sqrt(sum(x * x)) or 1.0
SafeSq(a) == IF Dot(a, a) = 0 THEN 1 ELSE Dot(a, a)

\* _cosine_distance(a, q) < _cosine_distance(b, q), in exact arithmetic:
\* the distance is 1 - dot / (norm * norm), so the order of the distances
\* is the reverse of the order of dot(x, q) / norm(x)
CloserThan(a, b, q) ==
  LET x == Dot(a, q)
      y == Dot(b, q)
  IN CASE x >= 0 /\ y < 0 -> TRUE
       [] x < 0 /\ y >= 0 -> FALSE
       [] x >= 0 /\ y >= 0 -> x * x * SafeSq(b) > y * y * SafeSq(a)
       [] OTHER -> x * x * SafeSq(b) < y * y * SafeSq(a)

\* a ranking that puts a chunk before the chunks of its distance
RECURSIVE SortedByDistanceUnstable(_, _)
SortedByDistanceUnstable(rows, q) ==
  IF rows = <<>> THEN <<>>
  ELSE LET n == Len(rows)
           front == SortedByDistanceUnstable(SubSeq(rows, 1, n - 1), q)
           x == rows[n]
           behind == {i \in 1..Len(front) :
                        CloserThan(front[i].embedding, x.embedding, q)}
           k == IF behind = {} THEN 0 ELSE MaxOf(behind)
       IN SubSeq(front, 1, k) \o <<x>> \o SubSeq(front, k + 1, Len(front))

\* sorted(chunks, key=distance): stable, so a chunk goes behind every chunk
\* before it that is not farther
RECURSIVE SortedByDistance(_, _)
SortedByDistance(rows, q) ==
  IF rows = <<>> THEN <<>>
  ELSE LET n == Len(rows)
           front == SortedByDistance(SubSeq(rows, 1, n - 1), q)
           x == rows[n]
           behind == {i \in 1..Len(front) :
                        ~CloserThan(x.embedding, front[i].embedding, q)}
           k == IF behind = {} THEN 0 ELSE MaxOf(behind)
       IN SubSeq(front, 1, k) \o <<x>> \o SubSeq(front, k + 1, Len(front))

\* a select that forgets its where clause
ScopeRowsOfAll(db, scope_id) == db.chunks

\* select(RagChunk).where(scope_column == scope_id): the rows of the scope,
\* in the order of the table
ScopeRows(db, scope_id) ==
  SelectSeq(db.chunks, LAMBDA row : row.manual_id = scope_id)

\* an ORDER BY that ranks the farthest row first
NativeCloserReversed(a, b, q) == CloserThan(b, a, q)

\* embedding <=> query of the store is less for a than for b.  The store
\* divides by the norms as they are, so the distance of a zero vector is
\* NaN, which the store orders behind every number and beside itself.
NativeCloser(a, b, q) ==
  CASE Dot(a, a) = 0 \/ Dot(q, q) = 0 -> FALSE
    [] Dot(b, b) = 0 -> TRUE
    [] OTHER -> CloserThan(a, b, q)

\* ORDER BY embedding <=> query: the orders the store can return the rows
\* in; rows of one distance come in any order
NativeOrders(rows, q) ==
  {p \in Permutations(DOMAIN rows) :
     \A i, j \in DOMAIN rows :
       i < j => ~NativeCloser(rows[p[j]].embedding, rows[p[i]].embedding, q)}

\* the results the postgresql branch of retrieve_relevant_chunks can give:
\* where, order by, limit
retrieve_relevant_chunks_postgresql(db, scope_id, query_embedding, top_k) ==
  IF query_embedding = EmbedFailed
  THEN {[ok |-> FALSE, texts |-> <<>>]}
  ELSE {[ok |-> TRUE,
         texts |-> [i \in 1..PyMin(top_k, Len(ScopeRows(db, scope_id))) |->
                      ScopeRows(db, scope_id)[p[i]].chunk_text]] :
          p \in NativeOrders(ScopeRows(db, scope_id), query_embedding)}

\* a retrieval that answers with an empty context whatever embed_text did
retrieve_relevant_chunks_degraded(db, scope_id, query_embedding, top_k) ==
  [ok |-> TRUE, texts |-> <<>>]

\* retrieve_relevant_chunks on the in-memory path; query_embedding is what
\* embed_text(query_text) gave
retrieve_relevant_chunks(db, scope_id, query_embedding, top_k) ==
  IF query_embedding = EmbedFailed
  THEN [ok |-> FALSE, texts |-> <<>>]
  ELSE LET ranked == SortedByDistance(ScopeRows(db, scope_id), query_embedding)
           taken == SubSeq(ranked, 1, PyMin(top_k, Len(ranked)))
       IN [ok |-> TRUE, texts |-> [i \in 1..Len(taken) |-> taken[i].chunk_text]]

\* index_content: embeds[i] is what the i-th embed_text call gives.  The
\* rows are added to the session in order; the first call that raises
\* ends the loop.
RECURSIVE IndexLoop(_, _, _, _, _)
IndexLoop(db, scope_id, chunked, embeds, index) ==
  IF index >= Len(chunked) THEN [ok |-> TRUE, db |-> db, embed_calls |-> index]
  ELSE IF embeds[index + 1] = EmbedFailed
  THEN [ok |-> FALSE, db |-> db, embed_calls |-> index + 1]
  ELSE IndexLoop([db EXCEPT !.chunks =
                    Append(@, [manual_id |-> scope_id, chunk_index |-> index,
                               chunk_text |-> chunked[index + 1],
                               embedding |-> embeds[index + 1]])],
                 scope_id, chunked, embeds, index + 1)

index_content(db, scope_id, content_text, max_chunk_chars, separator, embeds) ==
  IndexLoop(db, scope_id, chunk_text(content_text, max_chunk_chars, separator),
            embeds, 0)

\* ---------------------------------------------------------------- results
\* What a handler leaves behind: the committed store, the HTTP status of the
\* response with its detail, and how often it called the collaborators.
Outcome(store, status_code, detail, embed_calls, generate_calls) ==
  [store |-> store, status_code |-> status_code, detail |-> detail,
   embed_calls |-> embed_calls, generate_calls |-> generate_calls]

\* raise HTTPException(...) before any collaborator was called
HTTPException(store, status_code, detail) ==
  Outcome(store, status_code, detail, 0, 0)

\* An exception that is no HTTPException reaches the client as a 500.
INTERNAL_SERVER_ERROR == 500

\* a test that takes the empty string for a reason
TruthyNotNone(x) == x # None

\* Python truthiness of an optional string
Truthy(x) == x # None /\ x # ""

\* ------------------------------------------------------- app/db/models.py
\* the number of rows of a table that is kept per owner
RECURSIVE CountRows(_)
CountRows(perOwner) ==
  IF perOwner = <<>> THEN 0 ELSE Len(Head(perOwner)) + CountRows(Tail(perOwner))

\* AssetJourneyEvent.created_at, default datetime.now(UTC) at the insert: a
\* clock that advances between two inserts.  Only events of one asset are
\* ever compared, so the clock counts the inserts for that asset.
EventClock(db, asset_id) == Len(db.journey_events[asset_id]) + 1

\* rows in descending order of created_at
RECURSIVE OrderedByCreatedAtDescending(_)
OrderedByCreatedAtDescending(rows) ==
  IF rows = <<>> THEN <<>>
  ELSE LET n == Len(rows)
           front == OrderedByCreatedAtDescending(SubSeq(rows, 1, n - 1))
           x == rows[n]
           before == {i \in 1..Len(front) : front[i].created_at >= x.created_at}
           k == IF before = {} THEN 0 ELSE MaxOf(before)
       IN SubSeq(front, 1, k) \o <<x>> \o SubSeq(front, k + 1, Len(front))

\* relationship(order_by="AssetJourneyEvent.created_at"): the rows of an
\* asset as the relationship loads them, ascending
RECURSIVE OrderedByCreatedAt(_)
OrderedByCreatedAt(rows) ==
  IF rows = <<>> THEN <<>>
  ELSE LET n == Len(rows)
           front == OrderedByCreatedAt(SubSeq(rows, 1, n - 1))
           x == rows[n]
           before == {i \in 1..Len(front) : front[i].created_at <= x.created_at}
           k == IF before = {} THEN 0 ELSE MaxOf(before)
       IN SubSeq(front, 1, k) \o <<x>> \o SubSeq(front, k + 1, Len(front))

\* --------------------------------------- app/services/journey_service.py
\* an event written with its two statuses exchanged
log_journey_event_swapped(db, asset_id, actor_id, event_type, to_status, note, from_status, payload) ==
  [db EXCEPT !.journey_events[asset_id] =
     Append(@, [id |-> <<asset_id, EventClock(db, asset_id)>>,
                created_at |-> EventClock(db, asset_id),
                asset_id |-> asset_id, actor_id |-> actor_id,
                event_type |-> event_type, from_status |-> to_status,
                to_status |-> from_status, note |-> note, payload |-> payload])]

log_journey_event(db, asset_id, actor_id, event_type, to_status, note, from_status, payload) ==
  [db EXCEPT !.journey_events[asset_id] =
     Append(@, [id |-> <<asset_id, EventClock(db, asset_id)>>,
                created_at |-> EventClock(db, asset_id),
                asset_id |-> asset_id, actor_id |-> actor_id,
                event_type |-> event_type, from_status |-> from_status,
                to_status |-> to_status, note |-> note, payload |-> payload])]

\* ------------------------------------ app/services/governance_service.py
\* stage sets that admit a decision of the other stage
StageADecisionsWithApproved == {PENDING_B, REJECTED, APPROVED}

\* the decisions review_by_approver_a admits
StageADecisions == {PENDING_B, REJECTED}

StageBDecisionsWithPendingB == {APPROVED, REJECTED, PENDING_B}

\* a stage B that can approve only
StageBApprovesOnly == {APPROVED}

\* the decisions review_by_approver_b admits
StageBDecisions == {APPROVED, REJECTED}

\* a stage-A event that reads as a rejection whatever the decision
_event_for_review_rejected(payload) ==
  <<REVIEW_A_REJECTED, <<"Approver A rechazo: ", payload.rejection_reason>>>>

_event_for_review(payload) ==
  IF payload.decision = PENDING_B
  THEN <<REVIEW_A_APPROVED, <<"Approver A aprobo y envio a Approver B">>>>
  ELSE <<REVIEW_A_REJECTED, <<"Approver A rechazo: ", payload.rejection_reason>>>>

review_by_approver_a(db, asset_id, payload, current_user) ==
  IF asset_id \notin DOMAIN db.assets
  THEN HTTPException(db, 404, "Asset not found")
  ELSE
  LET asset == db.assets[asset_id] IN
  IF payload.decision \notin StageADecisions
  THEN HTTPException(db, 400, "Approver A can only send to pending_b or rejected")
  ELSE IF ~can_transition(asset.workflow_status, payload.decision)
  THEN HTTPException(db, 409, "Invalid workflow transition")
  ELSE IF payload.decision = REJECTED /\ ~Truthy(payload.rejection_reason)
  THEN HTTPException(db, 400, "rejection_reason required when rejected")
  ELSE
  LET previous_status == asset.workflow_status
      s1 == [db EXCEPT !.assets[asset_id] =
               [@ EXCEPT !.workflow_status = payload.decision,
                         !.reviewer_a_id = current_user,
                         !.rejection_reason = payload.rejection_reason]]
      ev == _event_for_review(payload)
      s2 == log_journey_event(s1, asset_id, current_user, ev[1],
                              payload.decision, ev[2], previous_status,
                              [rejection_reason |-> payload.rejection_reason])
  IN \* db.commit()
     Outcome(s2, 200, "OK", 0, 0)

JSONWORD == "json"

\* re.sub(r"^```(?:json)?\s*", "", cleaned, flags=re.IGNORECASE)
StripOpeningFence(c) ==
  LET a == IF Len(c) >= 1 /\ c[1] = FENCE THEN 2 ELSE 1
      b == IF a = 2 /\ Len(c) >= 2 /\ c[2] = JSONWORD THEN 3 ELSE a
      rest == {i \in b..Len(c) : c[i] # WS}
  IN IF a = 1 THEN c
     ELSE IF rest = {} THEN <<>> ELSE SubSeq(c, MinOf(rest), Len(c))

\* a closing fence that is left where it is
StripClosingFenceNot(c) == c

\* re.sub(r"\s*```$", "", cleaned)
StripClosingFence(c) ==
  IF Len(c) >= 1 /\ c[Len(c)] = FENCE
  THEN LET before == {i \in 1..(Len(c) - 1) : c[i] # WS}
       IN IF before = {} THEN <<>> ELSE SubSeq(c, 1, MaxOf(before))
  ELSE c

Raised(exc) ==
  [ok |-> FALSE, exc |-> exc, dict |-> FALSE, members |-> <<>>, value |-> PyNull]

Loaded(j) ==
  [ok |-> TRUE, exc |-> "", dict |-> j.dict, members |-> j.members, value |-> j.value]

ParsedOrRaised(j) == IF j.ok THEN Loaded(j) ELSE Raised("JSONDecodeError")

\* re.search(r"\{[\s\S]*\}", cleaned) and json.loads of the match: the span
\* from the first "{" to the last "}"
SearchSpan(cleaned, opens) ==
  IF opens = {} \/ {j \in 1..Len(cleaned) : cleaned[j] = RBRACE /\ j > MinOf(opens)} = {}
  THEN Raised("ValueError")
  ELSE ParsedOrRaised(
         JsonLoads(SubSeq(cleaned, MinOf(opens),
                          MaxOf({j \in 1..Len(cleaned) : cleaned[j] = RBRACE}))))

\* the two attempts on the cleaned text
ExtractFromCleaned(cleaned, direct) ==
  IF direct.ok THEN Loaded(direct)
  ELSE SearchSpan(cleaned, {i \in 1..Len(cleaned) : cleaned[i] = LBRACE})

\* the text without its fence markers
Unfenced(stripped) ==
  IF stripped # <<>> /\ stripped[1] = FENCE
  THEN StripTokens(StripClosingFence(StripTokens(StripOpeningFence(stripped))))
  ELSE stripped

ExtractFromStripped(stripped) ==
  IF stripped = <<>> THEN Raised("ValueError")
  ELSE ExtractFromCleaned(Unfenced(stripped), JsonLoads(Unfenced(stripped)))

_extract_json_object(text_payload) == ExtractFromStripped(StripTokens(text_payload))

DEFAULT_CONFIDENCE == 50
DEFAULT_EXPLANATION == "No explanation returned"

\* float(x) of a value read from JSON, in hundredths
Float(x) ==
  CASE x.kind = "num" -> [ok |-> TRUE, exc |-> "", n |-> x.n]
    [] x.kind = "str" /\ x.s \in DOMAIN NumericStrings ->
         [ok |-> TRUE, exc |-> "", n |-> NumericStrings[x.s]]
    [] x.kind = "str" -> [ok |-> FALSE, exc |-> "ValueError", n |-> 0]
    [] OTHER -> [ok |-> FALSE, exc |-> "TypeError", n |-> 0]

NoDecision == [verdict |-> FAIL, confidence |-> 0, explanation |-> PyNull]

ParseRaised(exc) == [ok |-> FALSE, exc |-> exc, decision |-> NoDecision]

\* a decision whose verdict is FAIL only for the literal "fail"
DecisionOfFailOpen(members, confidence) ==
  IF ~confidence.ok THEN ParseRaised(confidence.exc)
  ELSE [ok |-> TRUE, exc |-> "",
        decision |->
          [verdict |-> IF DictGet(members, "verdict", PyNull) = PyStr("fail")
                       THEN FAIL ELSE CHECK,
           confidence |-> Clamp(confidence.n),
           explanation |-> DictGet(members, "explanation",
                                   PyStr(DEFAULT_EXPLANATION))]]

\* the fields of the decision, read from the members of the object
DecisionOf(members, confidence) ==
  IF ~confidence.ok THEN ParseRaised(confidence.exc)
  ELSE [ok |-> TRUE, exc |-> "",
        decision |->
          [verdict |-> IF DictGet(members, "verdict", PyNull) = PyStr("check")
                       THEN CHECK ELSE FAIL,
           confidence |-> Clamp(confidence.n),
           explanation |-> DictGet(members, "explanation",
                                   PyStr(DEFAULT_EXPLANATION))]]

ParseExtracted(parsed) ==
  IF ~parsed.ok THEN ParseRaised(parsed.exc)
  ELSE IF ~parsed.dict THEN ParseRaised("AttributeError")
  ELSE DecisionOf(parsed.members,
                  Float(DictGet(parsed.members, "confidence",
                                PyNum(DEFAULT_CONFIDENCE))))

_parse_audit_decision(text_payload) ==
  ParseExtracted(_extract_json_object(text_payload))

\* an event type that ignores the verdict
_event_for_audit_always_fail(verdict) ==
  <<AUDIT_FAIL, <<"Auditoria multimodal fallida">>>>

_event_for_audit(verdict) ==
  IF verdict = CHECK
  THEN <<AUDIT_CHECK, <<"Auditoria multimodal aprobada">>>>
  ELSE <<AUDIT_FAIL, <<"Auditoria multimodal fallida">>>>

\* a stage B that stores the reason it is sent whatever the decision
review_by_approver_b_keeping_reason(db, asset_id, payload, current_user) ==
  IF asset_id \notin DOMAIN db.assets
  THEN HTTPException(db, 404, "Asset not found")
  ELSE
  LET asset == db.assets[asset_id] IN
  IF payload.decision \notin StageBDecisions
  THEN HTTPException(db, 400, "Approver B can only approve or reject")
  ELSE IF ~can_transition(asset.workflow_status, payload.decision)
  THEN HTTPException(db, 409, "Invalid workflow transition")
  ELSE
  LET previous_status == asset.workflow_status
      s1 == [db EXCEPT !.assets[asset_id] =
               [@ EXCEPT !.workflow_status = payload.decision,
                         !.reviewer_b_id = current_user,
                         !.rejection_reason = payload.rejection_reason]]
      event_type == IF payload.decision = APPROVED THEN AUDIT_CHECK ELSE AUDIT_FAIL
      note == IF payload.decision = APPROVED
              THEN <<"Approver B aprobo el recurso">>
              ELSE <<"Approver B rechazo: ", payload.rejection_reason>>
      s2 == log_journey_event(s1, asset_id, current_user, event_type,
                              payload.decision, note, previous_status,
                              [decision |-> payload.decision,
                               rejection_reason |-> payload.rejection_reason])
  IN Outcome(s2, 200, "OK", 0, 0)

review_by_approver_b(db, asset_id, payload, current_user) ==
  IF asset_id \notin DOMAIN db.assets
  THEN HTTPException(db, 404, "Asset not found")
  ELSE
  LET asset == db.assets[asset_id] IN
  IF payload.decision \notin StageBDecisions
  THEN HTTPException(db, 400, "Approver B can only approve or reject")
  ELSE IF ~can_transition(asset.workflow_status, payload.decision)
  THEN HTTPException(db, 409, "Invalid workflow transition")
  ELSE
  LET previous_status == asset.workflow_status
      s1 == [db EXCEPT !.assets[asset_id] =
               [@ EXCEPT !.workflow_status = payload.decision,
                         !.reviewer_b_id = current_user,
                         !.rejection_reason =
                            IF payload.decision = REJECTED
                            THEN payload.rejection_reason ELSE None]]
      event_type == IF payload.decision = APPROVED THEN AUDIT_CHECK ELSE AUDIT_FAIL
      note == IF payload.decision = APPROVED
              THEN <<"Approver B aprobo el recurso">>
              ELSE <<"Approver B rechazo: ", payload.rejection_reason>>
      s2 == log_journey_event(s1, asset_id, current_user, event_type,
                              payload.decision, note, previous_status,
                              [decision |-> payload.decision,
                               rejection_reason |-> payload.rejection_reason])
  IN \* db.commit()
     Outcome(s2, 200, "OK", 0, 0)

\* generate_text and generate_multimodal_text return a non-empty text or
\* raise; the empty text stands for the call that raises.
GenerateFailed == ""

\* the same for a model output, which is a sequence of tokens
NoAnswer == <<>>

AUDIT_TOP_K == 8

\* an audit that is also admitted before stage A
AuditableStatusesWithPendingA == {PENDING_A, PENDING_B}

\* the statuses in which audit_with_image admits an asset (_assert_status)
AuditableStatuses == {PENDING_B}

\* The tracing wrapper: annotate(span, output) updates the span and flushes
\* the client, and either can raise.  annotate_raises is the number of the
\* annotate call of the handler that raises, 0 when none does.
AnnotateRaises(annotate_raises, call) == annotate_raises = call

\* an audit row that takes the id of the asset's first audit
AuditRowReusingId(asset_id, db, current_user, decision) ==
  [id |-> <<asset_id, 1>>,
   asset_id |-> asset_id, approver_id |-> current_user,
   verdict |-> decision.verdict, explanation |-> decision.explanation.s,
   confidence |-> decision.confidence]

\* db.add(audit); db.flush(): the explanation column is NOT NULL
AuditRow(asset_id, db, current_user, decision) ==
  [id |-> <<asset_id, Len(db.audits[asset_id]) + 1>>,
   asset_id |-> asset_id, approver_id |-> current_user,
   verdict |-> decision.verdict, explanation |-> decision.explanation.s,
   confidence |-> decision.confidence]

\* audit_with_image from the parsed result on: the second annotation, the
\* audit row, the journal event, the commit and the last annotation
AuditParsed(db, asset_id, current_user, status, result, ev, annotate_raises) ==
  IF ~result.ok /\ result.exc \in {"TypeError", "ValueError", "JSONDecodeError"}
  THEN Outcome(db, 502, "Model returned an invalid audit payload", 1, 1)
  ELSE IF ~result.ok
  THEN Outcome(db, INTERNAL_SERVER_ERROR, result.exc, 1, 1)
  ELSE IF AnnotateRaises(annotate_raises, 2)
  THEN Outcome(db, INTERNAL_SERVER_ERROR, "annotate raised", 1, 1)
  ELSE IF result.decision.explanation.kind # "str"
  THEN Outcome(db, INTERNAL_SERVER_ERROR, "IntegrityError", 1, 1)
  ELSE
  LET previous_status == status
      next_status == status
      audit == AuditRow(asset_id, db, current_user, result.decision)
      s1 == [db EXCEPT !.audits[asset_id] = Append(@, audit)]
      s2 == log_journey_event(s1, asset_id, current_user, ev[1], next_status,
                              ev[2], previous_status,
                              [verdict |-> result.decision.verdict,
                               confidence |-> result.decision.confidence,
                               explanation |-> result.decision.explanation.s,
                               audit_id |-> audit.id])
  IN \* db.commit(); the annotation of the span comes after it
     IF AnnotateRaises(annotate_raises, 3)
     THEN Outcome(s2, INTERNAL_SERVER_ERROR, "annotate raised", 1, 1)
     ELSE Outcome(s2, 200, "OK", 1, 1)

\* audit_with_image from the model's answer on
AuditGenerated(db, asset_id, current_user, status, raw_result, result, annotate_raises) ==
  IF raw_result = NoAnswer
  THEN Outcome(db, INTERNAL_SERVER_ERROR, "RuntimeError: generation", 1, 1)
  ELSE IF AnnotateRaises(annotate_raises, 1)
  THEN Outcome(db, INTERNAL_SERVER_ERROR, "annotate raised", 1, 1)
  ELSE AuditParsed(db, asset_id, current_user, status, result,
                   _event_for_audit(result.decision.verdict), annotate_raises)

\* audit_with_image from the retrieval on
AuditRetrieved(db, asset_id, current_user, status, rag, raw_result, annotate_raises) ==
  IF ~rag.ok
  THEN Outcome(db, INTERNAL_SERVER_ERROR, "RuntimeError: embedding", 1, 0)
  ELSE AuditGenerated(db, asset_id, current_user, status, raw_result,
                      _parse_audit_decision(raw_result), annotate_raises)

audit_with_image(db, asset_id, current_user, query_embedding, raw_result, annotate_raises) ==
  IF asset_id \notin DOMAIN db.assets
  THEN HTTPException(db, 404, "Asset not found")
  ELSE IF db.assets[asset_id].workflow_status \notin AuditableStatuses
  THEN HTTPException(db, 409, "Asset must be pending_b before multimodal audit")
  ELSE AuditRetrieved(db, asset_id, current_user,
                      db.assets[asset_id].workflow_status,
                      retrieve_relevant_chunks(db, db.assets[asset_id].manual_id,
                                               query_embedding, AUDIT_TOP_K),
                      raw_result, annotate_raises)

\* ------------------------------- app/services/creative_assets_service.py
GENERATE_TOP_K == 10

\* an asset that skips stage A
InitialStatusPendingB == PENDING_B

\* the status generate_asset gives a new asset
InitialStatus == PENDING_A

generate_asset(db, payload, current_user, query_embedding, generated_text, annotate_raises) ==
  IF payload.manual_id \notin DOMAIN db.manuals
  THEN HTTPException(db, 404, "Manual not found")
  ELSE
  LET rag == retrieve_relevant_chunks(db, payload.manual_id, query_embedding,
                                      GENERATE_TOP_K) IN
  IF ~rag.ok
  THEN Outcome(db, INTERNAL_SERVER_ERROR, "RuntimeError: embedding", 1, 0)
  ELSE IF generated_text = GenerateFailed
  THEN Outcome(db, INTERNAL_SERVER_ERROR, "RuntimeError: generation", 1, 1)
  ELSE IF AnnotateRaises(annotate_raises, 1)
  THEN Outcome(db, INTERNAL_SERVER_ERROR, "annotate raised", 1, 1)
  ELSE
  LET id == Len(db.assets) + 1
      asset == [id |-> id, manual_id |-> payload.manual_id,
                created_by_id |-> current_user,
                workflow_status |-> InitialStatus,
                reviewer_a_id |-> None, reviewer_b_id |-> None,
                rejection_reason |-> None, created_at |-> id]
      s1 == [db EXCEPT !.assets = Append(@, asset),
                       !.journey_events = Append(@, <<>>),
                       !.audits = Append(@, <<>>)]
      s2 == log_journey_event(s1, id, current_user, ASSET_CREATED, PENDING_A,
                              <<"Asset creado por Creator y enviado a Approver A">>,
                              None, [manual_id |-> payload.manual_id])
  IN \* db.commit(); the annotation of the span comes after it
     IF AnnotateRaises(annotate_raises, 2)
     THEN Outcome(s2, INTERNAL_SERVER_ERROR, "annotate raised", 1, 1)
     ELSE Outcome(s2, 200, "OK", 1, 1)

\* the response to a journey request
JourneyResponse(store, status_code, detail, events) ==
  [store |-> store, status_code |-> status_code, detail |-> detail,
   events |-> events]

_to_journey_event(event) ==
  [id |-> event.id, event_type |-> event.event_type,
   from_status |-> event.from_status, to_status |-> event.to_status,
   note |-> event.note, actor_id |-> event.actor_id,
   payload |-> event.payload, created_at |-> event.created_at]

LEGACY_NOTE == <<"Este registro no tenia eventos historicos.">>

\* a made-up event that always ends in the initial status
legacy_event_pending_a(asset) ==
  [id |-> <<"legacy", asset.id>>, event_type |-> ASSET_CREATED,
   from_status |-> None, to_status |-> PENDING_A,
   note |-> LEGACY_NOTE, actor_id |-> asset.created_by_id,
   payload |-> [legacy |-> TRUE], created_at |-> asset.created_at]

\* the event get_asset_journey makes up for an asset without events
legacy_event(asset) ==
  [id |-> <<"legacy", asset.id>>, event_type |-> ASSET_CREATED,
   from_status |-> None, to_status |-> asset.workflow_status,
   note |-> LEGACY_NOTE, actor_id |-> asset.created_by_id,
   payload |-> [legacy |-> TRUE], created_at |-> asset.created_at]

\* a response of the stored events only
JourneyEventsStoredOnly(asset, loaded) ==
  [i \in 1..Len(loaded) |-> _to_journey_event(loaded[i])]

\* a response that puts the made-up event before the stored ones
JourneyEventsLegacyFirst(asset, loaded) ==
  <<legacy_event(asset)>> \o [i \in 1..Len(loaded) |-> _to_journey_event(loaded[i])]

\* the events of the response, from the events the relationship loaded
JourneyEvents(asset, loaded) ==
  IF loaded = <<>> THEN <<legacy_event(asset)>>
  ELSE [i \in 1..Len(loaded) |-> _to_journey_event(loaded[i])]

get_asset_journey(db, asset_id) ==
  IF asset_id \notin DOMAIN db.assets
  THEN JourneyResponse(db, 404, "Asset not found", <<>>)
  ELSE JourneyResponse(db, 200, "OK",
         JourneyEvents(db.assets[asset_id],
                       OrderedByCreatedAt(db.journey_events[asset_id])))

\* --------------------------------- app/services/brand_manuals_service.py
\* "\n\n".join(f"## {title.strip()}\n{content.strip()}" ...).strip() over
\* the sections that have a title and a content
SectionBlock(x) == "## " \o strip(x.title) \o "\n" \o strip(x.content)

ManualText(sections) ==
  strip(join("\n\n",
             [i \in 1..Len(SelectSeq(sections,
                                     LAMBDA x : x.title # "" /\ x.content # "")) |->
                SectionBlock(SelectSeq(sections,
                                       LAMBDA x : x.title # "" /\ x.content # "")[i])]))

MANUAL_SEPARATOR == "##"

\* manual_payload is what generate_text gave: its text (GenerateFailed when
\* the call raised) and what json.loads makes of the text: valid or not,
\* and the sections
ManualIndexed(db, indexed, annotate_raises) ==
  IF ~indexed.ok
  THEN Outcome(db, INTERNAL_SERVER_ERROR, "RuntimeError: embedding",
               indexed.embed_calls, 1)
  \* db.commit(); the annotation of the span comes after it
  ELSE IF AnnotateRaises(annotate_raises, 2)
  THEN Outcome(indexed.db, INTERNAL_SERVER_ERROR, "annotate raised",
               indexed.embed_calls, 1)
  ELSE Outcome(indexed.db, 200, "OK", indexed.embed_calls, 1)

\* db.add(manual); db.flush(); rag_service.index_content(...)
ManualAdded(db, current_user, manual_text, id, embeds, annotate_raises) ==
  ManualIndexed(db,
    index_content([db EXCEPT !.manuals =
                      Append(@, [id |-> id, manual_markdown |-> manual_text,
                                 created_by_id |-> current_user])],
                  id, manual_text, DEFAULT_MAX_CHUNK_CHARS, MANUAL_SEPARATOR,
                  embeds),
    annotate_raises)

create_brand_manual(db, current_user, manual_payload, embeds, annotate_raises) ==
  IF manual_payload.text = GenerateFailed
  THEN Outcome(db, INTERNAL_SERVER_ERROR, "RuntimeError: generation", 0, 1)
  ELSE IF AnnotateRaises(annotate_raises, 1)
  THEN Outcome(db, INTERNAL_SERVER_ERROR, "annotate raised", 0, 1)
  ELSE IF ~manual_payload.valid
  THEN Outcome(db, INTERNAL_SERVER_ERROR, "JSONDecodeError", 0, 1)
  ELSE ManualAdded(db, current_user, ManualText(manual_payload.sections),
                   Len(db.manuals) + 1, embeds, annotate_raises)

\* ------------------------------------------------------------------ state
VARIABLES
  manuals,         \* table brand_manuals, in insertion order; id = position
  chunks,          \* table brand_manual_chunks, in insertion order
  assets,          \* table creative_assets, in insertion order; id = position
  journey_events,  \* table asset_journey_events, per asset, by created_at
  audits,          \* table multimodal_audits, per asset, by created_at
  sessions,        \* the requests in flight, per client (see SpecRace)
  call             \* a function applied by itself: arguments and result

vars == <<manuals, chunks, assets, journey_events, audits, sessions, call>>

\* The committed tables as one value (the store a session starts from).
Store ==
  [manuals |-> manuals, chunks |-> chunks, assets |-> assets,
   journey_events |-> journey_events, audits |-> audits]

\* a call ends: the store is what the handler left (its response goes to
\* the caller and is no state)
Respond(r) ==
  /\ Len(r.store.manuals) <= MaxManuals
  /\ CountRows(r.store.journey_events) <= MaxEvents
  /\ manuals' = r.store.manuals
  /\ chunks' = r.store.chunks
  /\ assets' = r.store.assets
  /\ journey_events' = r.store.journey_events
  /\ audits' = r.store.audits
  /\ sessions' = sessions
  /\ call' = call

\* the clients of SpecRace, each of which makes one request
Clients == {"c1", "c2"}

EmptyStore ==
  [manuals |-> <<>>, chunks |-> <<>>, assets |-> <<>>, journey_events |-> <<>>,
   audits |-> <<>>]

\* no function is applied by itself
NoCall == [fn |-> ""]

\* a client that has sent nothing yet
Idle ==
  [pc |-> "idle", op |-> None, asset_id |-> 0, view |-> EmptyStore,
   status_code |-> 0]

\* ----------------------------------------------------------------- inputs
\* the ids a request can name: those of the rows, and one of no row
ManualIds == 1..(Len(manuals) + 1)
AssetIds == 1..(Len(assets) + 1)

\* a review request: any decision, with a reason or without; a rejection
\* also with the empty reason
Reasons == {None, "off-brand"}
ReviewPayloads ==
  [decision : WorkflowStatus, rejection_reason : Reasons]
    \cup {[decision |-> REJECTED, rejection_reason |-> ""]}
GeneratePayloads == [manual_id : ManualIds]

\* the embeddings the provider returns
Embeddings == {<<1, 0>>}
EmbedResults == Embeddings \cup {EmbedFailed}

\* a manual of two sections, each too long to share a chunk with the other
SectionChars == 350
LongSections ==
  <<[title |-> "A", content |-> Repeat("a", SectionChars)],
    [title |-> "B", content |-> Repeat("b", SectionChars)]>>
ManualPayloads ==
  {[text |-> GenerateFailed, valid |-> FALSE, sections |-> <<>>],
   [text |-> "?", valid |-> FALSE, sections |-> <<>>],
   [text |-> "{...}", valid |-> TRUE, sections |-> LongSections]}
MaxChunkCalls == 2

\* what generate_text returns for an asset
GeneratedTexts == {GenerateFailed, "copy"}

\* what generate_multimodal_text returns for an audit
RawResults ==
  {NoAnswer,
   <<LBRACE, "\"verdict\":\"check\"", "\"confidence\":0.87",
     "\"explanation\":\"ok\"", RBRACE>>,
   <<FENCE, JSONWORD, WS, LBRACE, "\"verdict\":\"fail\"", "\"confidence\":1.5",
     RBRACE, WS, FENCE>>,
   <<"x", WS, LBRACE, "\"verdict\":\"CHECK\"", "\"explanation\":null", RBRACE>>,
   <<"x", "x">>,
   <<LBRACE, "\"confidence\":\"high\"", RBRACE>>,
   <<"[1]">>}

\* the annotate call that raises (0: none): each handler makes two, the
\* audit three
AnnotateCalls == 0..2
AuditAnnotateCalls == 0..3

\* What the collaborators do in one call of generate_asset and of
\* audit_with_image: what each gives when it is called.
GenerateOutcomes ==
  [query_embedding : EmbedResults, generated_text : GeneratedTexts,
   annotate_raises : AnnotateCalls]
AuditOutcomes ==
  [query_embedding : EmbedResults, raw_result : RawResults,
   annotate_raises : AuditAnnotateCalls]

\* ---------------------------------------------------------------- actions
Init ==
  /\ manuals = <<>>
  /\ chunks = <<>>
  /\ assets = <<>>
  /\ journey_events = <<>>
  /\ audits = <<>>
  /\ sessions = [c \in Clients |-> Idle]
  /\ call = NoCall

CreateBrandManual(manual_payload, embeds, annotate_raises) ==
  /\ Len(manuals) < MaxManuals
  /\ Respond(create_brand_manual(Store, CREATOR, manual_payload, embeds,
                                 annotate_raises))

GenerateAsset(payload, query_embedding, generated_text, annotate_raises) ==
  Respond(generate_asset(Store, payload, CREATOR, query_embedding,
                         generated_text, annotate_raises))

ReviewStageA(asset_id, payload) ==
  Respond(review_by_approver_a(Store, asset_id, payload, APPROVER_A))

ReviewStageB(asset_id, payload) ==
  Respond(review_by_approver_b(Store, asset_id, payload, APPROVER_B))

AuditWithImage(asset_id, query_embedding, raw_result, annotate_raises) ==
  Respond(audit_with_image(Store, asset_id, APPROVER_B, query_embedding,
                           raw_result, annotate_raises))

GetJourney(asset_id) == Respond(get_asset_journey(Store, asset_id))

Next ==
  \/ \E p \in ManualPayloads, e \in [1..MaxChunkCalls -> EmbedResults],
        n \in AnnotateCalls : CreateBrandManual(p, e, n)
  \/ \E p \in GeneratePayloads, o \in GenerateOutcomes :
        GenerateAsset(p, o.query_embedding, o.generated_text, o.annotate_raises)
  \/ \E a \in AssetIds, p \in ReviewPayloads : ReviewStageA(a, p)
  \/ \E a \in AssetIds, p \in ReviewPayloads : ReviewStageB(a, p)
  \/ \E a \in AssetIds, o \in AuditOutcomes :
        AuditWithImage(a, o.query_embedding, o.raw_result, o.annotate_raises)
  \/ \E a \in AssetIds : GetJourney(a)

Spec == Init /\ [][Next]_vars

\* ------------------------------------- a database older than the journal
\* The table asset_journey_events came after creative_assets: an asset
\* stored before has no event.  Such a database holds a manual with its
\* chunks and one asset, in whatever status the workflow had brought it to.
IndexedManual ==
  create_brand_manual([manuals |-> <<>>, chunks |-> <<>>, assets |-> <<>>,
                       journey_events |-> <<>>, audits |-> <<>>],
                      CREATOR,
                      [text |-> "{...}", valid |-> TRUE, sections |-> LongSections],
                      [k \in 1..MaxChunkCalls |-> <<1, 0>>], 0).store

LegacyAsset(workflow_status, reviewer_a_id, reviewer_b_id, rejection_reason) ==
  [id |-> 1, manual_id |-> 1, created_by_id |-> CREATOR,
   workflow_status |-> workflow_status, reviewer_a_id |-> reviewer_a_id,
   reviewer_b_id |-> reviewer_b_id, rejection_reason |-> rejection_reason,
   created_at |-> 1]

LegacyAssets ==
  {LegacyAsset(PENDING_A, None, None, None),
   LegacyAsset(PENDING_B, APPROVER_A, None, None),
   LegacyAsset(APPROVED, APPROVER_A, APPROVER_B, None),
   LegacyAsset(REJECTED, APPROVER_A, None, "off-brand"),
   LegacyAsset(REJECTED, APPROVER_A, APPROVER_B, "off-brand")}

InitLegacy ==
  \E asset \in LegacyAssets :
    /\ manuals = IndexedManual.manuals
    /\ chunks = IndexedManual.chunks
    /\ assets = <<asset>>
    /\ journey_events = <<<<>>>>
    /\ audits = <<<<>>>>
    /\ sessions = [c \in Clients |-> Idle]
    /\ call = NoCall

NextLegacy ==
  \/ \E p \in GeneratePayloads, o \in GenerateOutcomes :
        GenerateAsset(p, o.query_embedding, o.generated_text, o.annotate_raises)
  \/ \E a \in AssetIds, p \in ReviewPayloads : ReviewStageA(a, p)
  \/ \E a \in AssetIds, p \in ReviewPayloads : ReviewStageB(a, p)
  \/ \E a \in AssetIds, o \in AuditOutcomes :
        AuditWithImage(a, o.query_embedding, o.raw_result, o.annotate_raises)
  \/ \E a \in AssetIds : GetJourney(a)

SpecLegacy == InitLegacy /\ [][NextLegacy]_vars

\* ------------------------------------------- indexing and retrieval alone
\* RagService by itself: contents are indexed under scopes of their own and
\* the chunks of a scope are retrieved, by either branch.
DEFAULT_SEPARATOR == "\n\n"

\* contents of three chunks, of two and of one, when a chunk holds one
\* character
ContentChunkChars == 1
Contents == {"a\n\nb\n\nc", "x\n\ny", "z"}

\* the vectors embed_text gives here: two of one direction, one between
\* the axes, one opposite, and the zero vector
RankEmbeddings == {<<1, 0>>, <<2, 0>>, <<1, 1>>, <<-1, 0>>, <<0, 0>>}

\* the vectors embed_text gives for a query
QueryEmbeddings == {<<1, 0>>, <<0, 1>>, <<0, 0>>}

POSTGRESQL == "postgresql"
SQLITE == "sqlite"
Dialects == {POSTGRESQL, SQLITE}

\* the results retrieve_relevant_chunks can give on a database of a dialect
retrieve_results(db, dialect, scope_id, query_embedding, top_k) ==
  IF dialect = POSTGRESQL
  THEN retrieve_relevant_chunks_postgresql(db, scope_id, query_embedding, top_k)
  ELSE {retrieve_relevant_chunks(db, scope_id, query_embedding, top_k)}

\* the tables after a content is indexed under a new scope: the row of the
\* scope is added and flushed, index_content adds the chunks, and the
\* commit comes only if no embed_text call raised
ContentIndexed(db, indexed) == IF indexed.ok THEN indexed.db ELSE db

ContentAdded(db, content_text, id, embeds) ==
  ContentIndexed(db,
    index_content([db EXCEPT !.manuals =
                     Append(@, [id |-> id, manual_markdown |-> content_text,
                                created_by_id |-> CREATOR])],
                  id, content_text, ContentChunkChars, DEFAULT_SEPARATOR, embeds))

IndexContent(content_text, embeds) ==
  /\ Len(chunks) + Len(embeds) <= MaxChunks
  /\ manuals' = ContentAdded(Store, content_text, Len(manuals) + 1, embeds).manuals
  /\ chunks' = ContentAdded(Store, content_text, Len(manuals) + 1, embeds).chunks
  /\ UNCHANGED <<assets, journey_events, audits, sessions, call>>

\* index_content called once more for a scope that exists; the caller
\* commits if no embed_text call raised
IndexContentAgain(scope_id, content_text, embeds) ==
  /\ scope_id <= Len(manuals)
  /\ Len(chunks) + Len(embeds) <= MaxChunks
  /\ chunks' = ContentIndexed(Store, index_content(Store, scope_id, content_text,
                                 ContentChunkChars, DEFAULT_SEPARATOR, embeds)).chunks
  /\ UNCHANGED <<manuals, assets, journey_events, audits, sessions, call>>

\* a retrieval reads and returns; it writes nothing
Retrieve(dialect, scope_id, query_embedding, top_k) ==
  /\ retrieve_results(Store, dialect, scope_id, query_embedding, top_k) # {}
  /\ UNCHANGED vars

\* what embed_text gives for each chunk of a content
ChunkEmbeddings(content_text) ==
  [1..Len(chunk_text(content_text, ContentChunkChars, DEFAULT_SEPARATOR)) ->
     RankEmbeddings \cup {EmbedFailed}]

NextRetrieve ==
  \/ \E t \in Contents : \E e \in ChunkEmbeddings(t) : IndexContent(t, e)
  \/ \E d \in Dialects, m \in ManualIds,
        q \in QueryEmbeddings \cup {EmbedFailed}, k \in 0..MaxTopK :
        Retrieve(d, m, q, k)

SpecRetrieve == Init /\ [][NextRetrieve]_vars

\* indexing alone, with further calls for scopes that exist
NextIndex ==
  \/ \E t \in Contents : \E e \in ChunkEmbeddings(t) : IndexContent(t, e)
  \/ \E m \in ManualIds, t \in Contents :
        \E e \in ChunkEmbeddings(t) : IndexContentAgain(m, t, e)

SpecIndex == Init /\ [][NextIndex]_vars

\* -------------------------------------------------- requests that overlap
\* The handlers are synchronous endpoints, which the server runs on a pool
\* of threads, each with a Session of its own (get_db).  A handler loads the
\* asset with its first statement and holds it in its Session to the end; it
\* writes with the flush of its commit.  The engine sets no isolation level,
\* so the UPDATE of a flush sets the attributes the handler changed on the row
\* as it is committed then, and asks nothing of the others.  A request is
\* two steps here: the load, and all the rest up to the response.

\* the rows a unit of work has added to a table of one asset
NewRows(view_rows, rows) == SubSeq(rows, Len(view_rows) + 1, Len(rows))

\* the INSERT of the audits a unit of work added: each gets its id then
InsertedAudits(db, asset_id, added) ==
  db.audits[asset_id] \o
    [i \in 1..Len(added) |->
       [added[i] EXCEPT !.id = <<asset_id, Len(db.audits[asset_id]) + i>>]]

\* the payload of an event, naming the audit by the id it got
PayloadOf(db, asset_id, event) ==
  IF "audit_id" \in DOMAIN event.payload
  THEN [event.payload EXCEPT !.audit_id = <<asset_id, Len(db.audits[asset_id]) + 1>>]
  ELSE event.payload

\* the INSERT of the events a unit of work added: id and created_at are
\* defaults, taken at the insert
InsertedEvents(db, asset_id, added) ==
  db.journey_events[asset_id] \o
    [i \in 1..Len(added) |->
       [added[i] EXCEPT !.id = <<asset_id, Len(db.journey_events[asset_id]) + i>>,
                        !.created_at = Len(db.journey_events[asset_id]) + i,
                        !.payload = PayloadOf(db, asset_id, added[i])]]

\* the UPDATE of the asset: the attributes that differ from what was loaded
UpdatedAsset(row, loaded, asset) ==
  [f \in DOMAIN row |-> IF asset[f] # loaded[f] THEN asset[f] ELSE row[f]]

\* the flush of a unit of work that loaded the asset from view and has made
\* work of it, on the tables as they are committed now
Flushed(db, view, work, asset_id) ==
  [db EXCEPT
     !.assets[asset_id] = UpdatedAsset(@, view.assets[asset_id], work.assets[asset_id]),
     !.audits[asset_id] =
        InsertedAudits(db, asset_id,
                       NewRows(view.audits[asset_id], work.audits[asset_id])),
     !.journey_events[asset_id] =
        InsertedEvents(db, asset_id,
                       NewRows(view.journey_events[asset_id],
                               work.journey_events[asset_id]))]

\* a commit that writes only if the status is still the one it loaded
commit_if_unchanged(db, view, work, asset_id) ==
  IF db.assets[asset_id].workflow_status # view.assets[asset_id].workflow_status
  THEN db
  ELSE Flushed(db, view, work, asset_id)

\* db.commit() of a unit of work that has written
commit(db, view, work, asset_id) == Flushed(db, view, work, asset_id)

\* the tables after a request that loaded view and ended with the outcome r
Committed(db, view, r, asset_id) ==
  IF r.store = view THEN db ELSE commit(db, view, r.store, asset_id)

REVIEW_A == "review_by_approver_a"
REVIEW_B == "review_by_approver_b"
AUDIT == "audit_with_image"
Operations == {REVIEW_A, REVIEW_B, AUDIT}

\* the first statement of a handler: the asset is loaded
Load(c, op, asset_id) ==
  /\ sessions[c].pc = "idle"
  /\ sessions' = [sessions EXCEPT ![c] =
                    [pc |-> "loaded", op |-> op, asset_id |-> asset_id,
                     view |-> Store, status_code |-> 0]]
  /\ UNCHANGED <<manuals, chunks, assets, journey_events, audits, call>>

\* the rest of a handler, whose outcome on what it loaded is r
Finish(c, op, r) ==
  /\ sessions[c].pc = "loaded"
  /\ sessions[c].op = op
  /\ sessions' = [sessions EXCEPT ![c] =
                    [pc |-> "done", op |-> op, asset_id |-> sessions[c].asset_id,
                     view |-> EmptyStore, status_code |-> r.status_code]]
  /\ manuals' = manuals
  /\ chunks' = chunks
  /\ call' = call
  /\ assets' = Committed(Store, sessions[c].view, r, sessions[c].asset_id).assets
  /\ journey_events' =
       Committed(Store, sessions[c].view, r, sessions[c].asset_id).journey_events
  /\ audits' = Committed(Store, sessions[c].view, r, sessions[c].asset_id).audits

FinishReviewA(c, payload) ==
  Finish(c, REVIEW_A,
         review_by_approver_a(sessions[c].view, sessions[c].asset_id, payload,
                              APPROVER_A))

FinishReviewB(c, payload) ==
  Finish(c, REVIEW_B,
         review_by_approver_b(sessions[c].view, sessions[c].asset_id, payload,
                              APPROVER_B))

FinishAudit(c, o) ==
  Finish(c, AUDIT,
         audit_with_image(sessions[c].view, sessions[c].asset_id, APPROVER_B,
                          o.query_embedding, o.raw_result, o.annotate_raises))

\* the database the clients meet: a manual and one asset, waiting for stage
\* A or passed on to stage B
AssetCreated ==
  generate_asset(IndexedManual, [manual_id |-> 1], CREATOR, <<1, 0>>, "copy", 0).store

AssetPassedOn ==
  review_by_approver_a(AssetCreated, 1,
                       [decision |-> PENDING_B, rejection_reason |-> None],
                       APPROVER_A).store

InitRace ==
  \E db \in {AssetCreated, AssetPassedOn} :
    /\ manuals = db.manuals
    /\ chunks = db.chunks
    /\ assets = db.assets
    /\ journey_events = db.journey_events
    /\ audits = db.audits
    /\ sessions = [c \in Clients |-> Idle]
    /\ call = NoCall

NextRace ==
  \/ \E c \in Clients, op \in Operations, a \in AssetIds : Load(c, op, a)
  \/ \E c \in Clients, p \in ReviewPayloads : FinishReviewA(c, p)
  \/ \E c \in Clients, p \in ReviewPayloads : FinishReviewB(c, p)
  \/ \E c \in Clients, o \in AuditOutcomes : FinishAudit(c, o)

SpecRace == InitRace /\ [][NextRace]_vars

\* --------------------------------------------------------- the chunker alone
\* RagService.chunk_text applied to a text, a limit and a separator, and
\* what it returns.
MaxTextLen == 4
MaxMaxChars == 5

\* the characters of the texts: two letters, the two characters of the
\* separators, and a blank
Alphabet == {"a", "b", "\n", "#", " "}

RECURSIVE TextsOfLen(_)
TextsOfLen(n) ==
  IF n = 0 THEN {""} ELSE {t \o c : t \in TextsOfLen(n - 1), c \in Alphabet}

\* every text of up to MaxTextLen characters, and some longer ones
ContentTexts ==
  UNION {TextsOfLen(n) : n \in 0..MaxTextLen}
    \cup {"a\n\nb\n\nc", "short text", "  short text \n", "\n\n \n\n\n\n",
          "## \n##", "##a\n##b\n##c", "ab\n\n\n\nba\n\nab"}

MaxCharsValues == 0..MaxMaxChars \cup {100, DEFAULT_MAX_CHUNK_CHARS}

\* the default separator, the one of the brand manuals, and none
Separators == {DEFAULT_SEPARATOR, MANUAL_SEPARATOR, ""}

Called(content_text, max_chars, separator) ==
  [fn |-> "chunk_text", pc |-> "called", content_text |-> content_text,
   max_chars |-> max_chars, separator |-> separator, chunked |-> <<>>]

\* the call returns its chunks; str.split raises ValueError for an empty
\* separator
Returned(c) ==
  IF c.separator = ""
  THEN [c EXCEPT !.pc = "ValueError"]
  ELSE [c EXCEPT !.pc = "returned",
                 !.chunked = chunk_text(c.content_text, c.max_chars, c.separator)]

InitChunk ==
  /\ manuals = <<>>
  /\ chunks = <<>>
  /\ assets = <<>>
  /\ journey_events = <<>>
  /\ audits = <<>>
  /\ sessions = [c \in Clients |-> Idle]
  /\ call \in {Called(t, m, sep) :
                 t \in ContentTexts, m \in MaxCharsValues, sep \in Separators}

ChunkText ==
  /\ call.pc = "called"
  /\ call' = Returned(call)
  /\ UNCHANGED <<manuals, chunks, assets, journey_events, audits, sessions>>

NextChunk == ChunkText

SpecChunk == InitChunk /\ [][NextChunk]_vars

\* ---------------------------------------------------------- the parser alone
\* _parse_audit_decision applied to a model output, beside a database with
\* one asset that waits for stage B.
MaxMembers == 2

\* the JSON objects of up to MaxMembers members
ObjectTexts ==
  {<<LBRACE>> \o members \o <<RBRACE>> :
     members \in UNION {[1..n -> MemberTokens] : n \in 0..MaxMembers}}

\* what stands where the JSON document should: an object, a JSON value that
\* is no object, nothing, prose, braces that do not match or hold prose
DocumentTexts ==
  ObjectTexts \cup {<<tok>> : tok \in ScalarTokens}
    \cup {<<>>, <<"x">>, <<LBRACE>>, <<RBRACE, LBRACE>>, <<LBRACE, "x", RBRACE>>}

\* what the model puts before and after the document
Preambles ==
  {<<>>, <<WS>>, <<FENCE>>, <<FENCE, JSONWORD, WS>>, <<JSONWORD, WS>>, <<"x", WS>>,
   <<LBRACE, RBRACE, WS>>}

Postambles == {<<>>, <<WS>>, <<WS, FENCE>>, <<WS, "x">>}

ModelOutputs ==
  {before \o document \o after :
     before \in Preambles, document \in DocumentTexts, after \in Postambles}

ParseCalled(text_payload) ==
  [fn |-> "_parse_audit_decision", pc |-> "called", text_payload |-> text_payload,
   result |-> ParseRaised("")]

\* the call returns an AuditDecision or raises
ParseReturned(c) ==
  [c EXCEPT !.pc = IF _parse_audit_decision(c.text_payload).ok
                   THEN "returned" ELSE "raised",
            !.result = _parse_audit_decision(c.text_payload)]

InitParse ==
  /\ manuals = AssetPassedOn.manuals
  /\ chunks = AssetPassedOn.chunks
  /\ assets = AssetPassedOn.assets
  /\ journey_events = AssetPassedOn.journey_events
  /\ audits = AssetPassedOn.audits
  /\ sessions = [c \in Clients |-> Idle]
  /\ call \in {ParseCalled(t) : t \in ModelOutputs}

ParseAuditDecision ==
  /\ call.pc = "called"
  /\ call' = ParseReturned(call)
  /\ UNCHANGED <<manuals, chunks, assets, journey_events, audits, sessions>>

NextParse == ParseAuditDecision

SpecParse == InitParse /\ [][NextParse]_vars

\* ------------------------------------------------------------- properties
\* the workflow table as the specification states it, by its edges
TableEdges ==
  {<<PENDING_A, PENDING_B>>, <<PENDING_A, REJECTED>>,
   <<PENDING_B, APPROVED>>, <<PENDING_B, REJECTED>>}

TerminalStatuses == {APPROVED, REJECTED}

\* the outcome of each call a client can make in the current state
ReviewA(asset_id, payload) ==
  review_by_approver_a(Store, asset_id, payload, APPROVER_A)
ReviewB(asset_id, payload) ==
  review_by_approver_b(Store, asset_id, payload, APPROVER_B)
Audit(asset_id, o) ==
  audit_with_image(Store, asset_id, APPROVER_B, o.query_embedding,
                   o.raw_result, o.annotate_raises)
Generate(payload, o) ==
  generate_asset(Store, payload, CREATOR, o.query_embedding,
                 o.generated_text, o.annotate_raises)

\* the last row of a journal or of an asset's audits
LastOf(rows) == rows[Len(rows)]

\* C1: an asset is created with status PENDING_A, and every step that changes
\* the status of an asset changes it along an edge of the workflow table; no
\* asset disappears.
StatusMovesAlongTable ==
  [][/\ \A a \in DOMAIN assets :
          /\ a \in DOMAIN assets'
          /\ \/ assets'[a].workflow_status = assets[a].workflow_status
             \/ <<assets[a].workflow_status, assets'[a].workflow_status>>
                  \in TableEdges
     /\ \A a \in DOMAIN assets' \ DOMAIN assets :
          assets'[a].workflow_status = PENDING_A]_vars

\* an asset that was created and has moved along two edges of the table
ApprovedAssetReached ==
  \E a \in DOMAIN assets :
    /\ assets[a].workflow_status = APPROVED
    /\ Len(journey_events[a]) >= 3
    /\ journey_events[a][1].to_status = PENDING_A

\* C2: for all pairs (current, target) of the four statuses, can_transition
\* is true iff target is in the table row of current; the rows of APPROVED
\* and of REJECTED are empty; so it is for the status of every stored asset.
CanTransitionIsTheTable ==
  /\ \A current \in WorkflowStatus, target \in WorkflowStatus :
       can_transition(current, target) <=> <<current, target>> \in TableEdges
  /\ \A a \in DOMAIN assets :
       \A target \in WorkflowStatus :
         ~can_transition(assets[a].workflow_status, target)
           \/ <<assets[a].workflow_status, target>> \in TableEdges

\* a review consulted the table for an edge, and the table refuses the way
\* back
TableConsulted ==
  \E a \in DOMAIN assets :
    /\ assets[a].workflow_status = REJECTED
    /\ LastOf(journey_events[a]).from_status = PENDING_A
    /\ can_transition(PENDING_A, REJECTED)
    /\ ~can_transition(REJECTED, PENDING_A)

\* a call that left every table as it was
NothingChanged(r) == r.store = Store

\* C3: stage gating comes before the workflow table: for an asset in any
\* status, a stage-A review with a decision outside {PENDING_B, REJECTED} and
\* a stage-B review with a decision outside {APPROVED, REJECTED} fail as bad
\* requests (400), never as conflicts (409), and change nothing.
StageGatingComesFirst ==
  \A a \in DOMAIN assets, p \in ReviewPayloads :
    /\ p.decision \notin {PENDING_B, REJECTED} =>
         /\ ReviewA(a, p).status_code = 400
         /\ NothingChanged(ReviewA(a, p))
    /\ p.decision \notin {APPROVED, REJECTED} =>
         /\ ReviewB(a, p).status_code = 400
         /\ NothingChanged(ReviewB(a, p))

\* a decision of the wrong stage, asked for an asset the table has no edge
\* for either, and for one it has an edge for
StageGatedInEveryStatus ==
  /\ \E a \in DOMAIN assets :
       /\ assets[a].workflow_status = APPROVED
       /\ ReviewA(a, [decision |-> APPROVED, rejection_reason |-> None]).status_code
            = 400
       /\ ReviewB(a, [decision |-> PENDING_B, rejection_reason |-> None]).status_code
            = 400
  /\ \E a \in DOMAIN assets :
       /\ assets[a].workflow_status = PENDING_A
       /\ ReviewB(a, [decision |-> PENDING_B, rejection_reason |-> None]).status_code
            = 400

\* what a successful review of asset a with request p by actor leaves, given
\* the reviewer field of its stage and that of the other stage
ReviewApplied(r, a, p, actor, own, other) ==
  /\ DOMAIN r.store.assets = DOMAIN assets
  /\ \A b \in DOMAIN assets \ {a} :
       /\ r.store.assets[b] = assets[b]
       /\ r.store.journey_events[b] = journey_events[b]
  /\ r.store.assets[a].workflow_status = p.decision
  /\ r.store.assets[a][own] = actor
  /\ r.store.assets[a][other] = assets[a][other]
  /\ r.store.assets[a].rejection_reason \in {p.rejection_reason, None}
  /\ p.decision = REJECTED =>
       r.store.assets[a].rejection_reason = p.rejection_reason
  /\ Len(r.store.journey_events[a]) = Len(journey_events[a]) + 1
  /\ SubSeq(r.store.journey_events[a], 1, Len(journey_events[a]))
       = journey_events[a]
  /\ LastOf(r.store.journey_events[a]).from_status = assets[a].workflow_status
  /\ LastOf(r.store.journey_events[a]).to_status
       = r.store.assets[a].workflow_status
  /\ r.store.audits = audits

\* C4: every successful stage-A or stage-B review sets the asset's status to
\* the decision, sets the reviewer field of its stage to the actor, leaves
\* the reviewer field of the other stage, sets rejection_reason (to the
\* reason of the request on a rejection), and appends exactly one event that
\* goes from the status before the call to the status after it.
ReviewEffects ==
  \A a \in DOMAIN assets, p \in ReviewPayloads :
    /\ ReviewA(a, p).status_code = 200 =>
         ReviewApplied(ReviewA(a, p), a, p, APPROVER_A,
                       "reviewer_a_id", "reviewer_b_id")
    /\ ReviewB(a, p).status_code = 200 =>
         ReviewApplied(ReviewB(a, p), a, p, APPROVER_B,
                       "reviewer_b_id", "reviewer_a_id")

\* both stages have reviewed an asset: stage B rejected what A had passed on
ReviewedByBothStages ==
  \E a \in DOMAIN assets :
    /\ assets[a].workflow_status = REJECTED
    /\ assets[a].reviewer_a_id = APPROVER_A
    /\ assets[a].reviewer_b_id = APPROVER_B
    /\ assets[a].rejection_reason = "off-brand"
    /\ LastOf(journey_events[a]).from_status = PENDING_B
    /\ LastOf(journey_events[a]).to_status = REJECTED

\* the rows of asset a after a call
Untouched(r, a) ==
  /\ a \in DOMAIN r.store.assets
  /\ r.store.assets[a] = assets[a]
  /\ r.store.journey_events[a] = journey_events[a]
  /\ r.store.audits[a] = audits[a]

\* C5: APPROVED and REJECTED are terminal: every review and every audit of
\* an asset in one of them fails, and no call of any operation changes its
\* status, reviewer fields, rejection_reason or journal.
TerminalIsFinal ==
  \A a \in DOMAIN assets :
    assets[a].workflow_status \in TerminalStatuses =>
      /\ \A b \in DOMAIN assets, p \in ReviewPayloads :
           /\ Untouched(ReviewA(b, p), a)
           /\ Untouched(ReviewB(b, p), a)
           /\ b = a => /\ ReviewA(b, p).status_code # 200
                       /\ ReviewB(b, p).status_code # 200
      /\ \A b \in DOMAIN assets, o \in AuditOutcomes :
           /\ Untouched(Audit(b, o), a)
           /\ b = a => Audit(b, o).status_code # 200
      /\ \A p \in GeneratePayloads, o \in GenerateOutcomes :
           Untouched(Generate(p, o), a)

\* an approved asset, on which a rejection by stage B and an audit of a
\* sound answer are refused
TerminalRefuses ==
  \E a \in DOMAIN assets :
    /\ assets[a].workflow_status = APPROVED
    /\ ReviewB(a, [decision |-> REJECTED, rejection_reason |-> "off-brand"]).status_code
         = 409
    /\ \E o \in AuditOutcomes :
         /\ _parse_audit_decision(o.raw_result).ok
         /\ Audit(a, o).status_code = 409

\* a call that left every asset record and every journal as it was
AssetsAndJournalsKept(r) ==
  /\ r.store.assets = assets
  /\ r.store.journey_events = journey_events

\* C6: every call of a review, of the audit or of the generation that ends
\* with an error, whatever raised it, leaves every asset record and every
\* asset's journal as they were before the call.
ErrorsLeaveAssetsAndJournals ==
  /\ \A a \in AssetIds, p \in ReviewPayloads :
       /\ ReviewA(a, p).status_code # 200 => AssetsAndJournalsKept(ReviewA(a, p))
       /\ ReviewB(a, p).status_code # 200 => AssetsAndJournalsKept(ReviewB(a, p))
  /\ \A a \in AssetIds, o \in AuditOutcomes :
       Audit(a, o).status_code # 200 => AssetsAndJournalsKept(Audit(a, o))
  /\ \A p \in GeneratePayloads, o \in GenerateOutcomes :
       Generate(p, o).status_code # 200 => AssetsAndJournalsKept(Generate(p, o))

\* C7: the audit of an asset whose status is not PENDING_B fails with a
\* conflict (409) before any collaborator is called: no embedding, no
\* generation, and nothing is added or changed.
AuditOutsidePendingBIsRefused ==
  \A a \in DOMAIN assets, o \in AuditOutcomes :
    assets[a].workflow_status # PENDING_B =>
      /\ Audit(a, o).status_code = 409
      /\ Audit(a, o).embed_calls = 0
      /\ Audit(a, o).generate_calls = 0
      /\ NothingChanged(Audit(a, o))

\* an asset still waiting for stage A, whose audit is refused though every
\* collaborator would have answered
AuditRefusedBeforeStageA ==
  \E a \in DOMAIN assets, o \in AuditOutcomes :
    /\ assets[a].workflow_status = PENDING_A
    /\ o.query_embedding # EmbedFailed
    /\ _parse_audit_decision(o.raw_result).ok
    /\ o.annotate_raises = 0
    /\ Audit(a, o).status_code = 409

\* rows is what before was, with exactly one row more
OneRowMore(rows, before) ==
  /\ Len(rows) = Len(before) + 1
  /\ SubSeq(rows, 1, Len(before)) = before

\* what a successful audit of asset a leaves, given the model's answer
AuditApplied(r, a, raw_result) ==
  /\ r.store.assets = assets
  /\ DOMAIN r.store.audits = DOMAIN audits
  /\ \A b \in DOMAIN assets \ {a} :
       /\ r.store.audits[b] = audits[b]
       /\ r.store.journey_events[b] = journey_events[b]
  /\ OneRowMore(r.store.audits[a], audits[a])
  /\ OneRowMore(r.store.journey_events[a], journey_events[a])
  /\ LastOf(r.store.audits[a]).verdict
       = _parse_audit_decision(raw_result).decision.verdict
  /\ LastOf(r.store.audits[a]).verdict = CHECK =>
       LastOf(r.store.journey_events[a]).event_type = AUDIT_CHECK
  /\ LastOf(r.store.audits[a]).verdict = FAIL =>
       LastOf(r.store.journey_events[a]).event_type = AUDIT_FAIL
  /\ LastOf(r.store.journey_events[a]).from_status = assets[a].workflow_status
  /\ LastOf(r.store.journey_events[a]).to_status = assets[a].workflow_status
  /\ LastOf(r.store.journey_events[a]).payload
       = [verdict |-> LastOf(r.store.audits[a]).verdict,
          confidence |-> LastOf(r.store.audits[a]).confidence,
          explanation |-> LastOf(r.store.audits[a]).explanation,
          audit_id |-> LastOf(r.store.audits[a]).id]

\* C8: every successful audit leaves the asset's status, reviewer fields and
\* rejection_reason, persists exactly one audit record, and appends exactly
\* one event: AUDIT_CHECK for the verdict CHECK and AUDIT_FAIL for FAIL, from
\* and to the asset's status, with the verdict, the confidence, the
\* explanation and the id of that audit record in its payload.
AuditEffects ==
  \A a \in DOMAIN assets, o \in AuditOutcomes :
    Audit(a, o).status_code = 200 => AuditApplied(Audit(a, o), a, o.raw_result)

\* an asset audited twice, once with each verdict, and still PENDING_B
AuditedWithBothVerdicts ==
  \E a \in DOMAIN assets :
    /\ assets[a].workflow_status = PENDING_B
    /\ Len(audits[a]) = 2
    /\ {audits[a][1].verdict, audits[a][2].verdict} = {CHECK, FAIL}
    /\ {e.event_type : e \in {journey_events[a][i] : i \in 3..4}}
         = {AUDIT_CHECK, AUDIT_FAIL}

\* C9: when the model's answer cannot be parsed into an audit decision, the
\* audit fails as a bad gateway (502), nothing is persisted, and the model is
\* not asked again.
UnparsableAnswerIsBadGateway ==
  \A a \in DOMAIN assets, o \in AuditOutcomes :
    (/\ assets[a].workflow_status = PENDING_B
     /\ o.query_embedding # EmbedFailed
     /\ o.raw_result # NoAnswer
     /\ o.annotate_raises = 0
     /\ ~_parse_audit_decision(o.raw_result).ok) =>
      /\ Audit(a, o).status_code = 502
      /\ Audit(a, o).generate_calls = 1
      /\ NothingChanged(Audit(a, o))

\* the embed_text calls of the indexing, the i-th of which raises
FailsAt(i) ==
  [k \in 1..MaxChunkCalls |-> IF k = i THEN EmbedFailed ELSE <<1, 0>>]

\* the number of chunks of the manual a payload makes
ChunksOf(manual_payload) ==
  Len(chunk_text(ManualText(manual_payload.sections), DEFAULT_MAX_CHUNK_CHARS,
                 MANUAL_SEPARATOR))

\* C10: when the embedding or the generation collaborator fails during the
\* generation of an asset or during an audit (the embedding of the query of
\* the retrieval included), the call fails and nothing is committed; when an
\* embedding fails during the indexing of a manual, at whatever chunk, no
\* chunk and no manual is stored.
CollaboratorFailureAborts ==
  /\ \A p \in GeneratePayloads, o \in GenerateOutcomes :
       (/\ p.manual_id \in DOMAIN manuals
        /\ \/ o.query_embedding = EmbedFailed
           \/ o.generated_text = GenerateFailed) =>
         /\ Generate(p, o).status_code # 200
         /\ NothingChanged(Generate(p, o))
  /\ \A a \in DOMAIN assets, o \in AuditOutcomes :
       (/\ assets[a].workflow_status = PENDING_B
        /\ \/ o.query_embedding = EmbedFailed
           \/ o.raw_result = NoAnswer) =>
         /\ Audit(a, o).status_code # 200
         /\ NothingChanged(Audit(a, o))
  /\ \A m \in ManualPayloads, i \in 1..MaxChunkCalls :
       (m.valid /\ i <= ChunksOf(m)) =>
         /\ create_brand_manual(Store, CREATOR, m, FailsAt(i), 0).status_code # 200
         /\ NothingChanged(create_brand_manual(Store, CREATOR, m, FailsAt(i), 0))

\* a state with a manual and an asset waiting for stage B, in which the
\* embedding of the audit's query fails, the generation of an asset fails,
\* and the indexing of a manual fails at its second chunk
CollaboratorsFail ==
  /\ Len(manuals) = 1
  /\ \E a \in DOMAIN assets :
       /\ assets[a].workflow_status = PENDING_B
       /\ Audit(a, [query_embedding |-> EmbedFailed, raw_result |-> NoAnswer,
                    annotate_raises |-> 0]).status_code = INTERNAL_SERVER_ERROR
  /\ Generate([manual_id |-> 1],
              [query_embedding |-> <<1, 0>>, generated_text |-> GenerateFailed,
               annotate_raises |-> 0]).status_code = INTERNAL_SERVER_ERROR
  /\ \E m \in ManualPayloads :
       /\ m.valid
       /\ ChunksOf(m) = 2
       /\ create_brand_manual(Store, CREATOR, m, FailsAt(2), 0).embed_calls = 2
       /\ create_brand_manual(Store, CREATOR, m, FailsAt(2), 0).status_code
            = INTERNAL_SERVER_ERROR

\* C11: in every reachable state, the rejection_reason of an asset is set
\* (not null) iff the status of the asset is REJECTED.
ReasonIffRejected ==
  \A a \in DOMAIN assets :
    assets[a].rejection_reason # None <=> assets[a].workflow_status = REJECTED

\* C12: a stage-A review that rejects an asset waiting for stage A without a
\* reason, absent or empty, fails as a bad request (400) and changes
\* nothing: no status, no reviewer, no event.
RejectionByANeedsReason ==
  \A a \in DOMAIN assets, p \in ReviewPayloads :
    (/\ assets[a].workflow_status = PENDING_A
     /\ p.decision = REJECTED
     /\ p.rejection_reason \in {None, ""}) =>
      /\ ReviewA(a, p).status_code = 400
      /\ NothingChanged(ReviewA(a, p))

\* an asset waiting for stage A whose rejection is refused for its empty
\* reason and for its absent reason, and accepted with a reason
RejectionWithoutReasonRefused ==
  \E a \in DOMAIN assets :
    /\ assets[a].workflow_status = PENDING_A
    /\ ReviewA(a, [decision |-> REJECTED, rejection_reason |-> ""]).detail
         = "rejection_reason required when rejected"
    /\ ReviewA(a, [decision |-> REJECTED, rejection_reason |-> None]).detail
         = "rejection_reason required when rejected"
    /\ ReviewA(a, [decision |-> REJECTED, rejection_reason |-> "off-brand"]).status_code
         = 200

\* the journal of every asset after a call begins with what it was
JournalsOnlyGrow(r) ==
  \A a \in DOMAIN journey_events :
    /\ a \in DOMAIN r.store.journey_events
    /\ Len(r.store.journey_events[a]) >= Len(journey_events[a])
    /\ SubSeq(r.store.journey_events[a], 1, Len(journey_events[a]))
         = journey_events[a]

\* C13: the journal is append-only: after every call of every operation the
\* journal of every asset begins with what it was before the call (no event
\* is changed or removed), and GetJourney returns the stored events of an
\* asset that has events, all of them, in ascending order of creation.
JournalIsAppendOnly ==
  /\ \A a \in AssetIds, p \in ReviewPayloads :
       JournalsOnlyGrow(ReviewA(a, p)) /\ JournalsOnlyGrow(ReviewB(a, p))
  /\ \A a \in AssetIds, o \in AuditOutcomes : JournalsOnlyGrow(Audit(a, o))
  /\ \A p \in GeneratePayloads, o \in GenerateOutcomes :
       JournalsOnlyGrow(Generate(p, o))
  /\ \A m \in ManualPayloads, e \in [1..MaxChunkCalls -> EmbedResults] :
       JournalsOnlyGrow(create_brand_manual(Store, CREATOR, m, e, 0))
  /\ \A a \in AssetIds : NothingChanged(get_asset_journey(Store, a))
  /\ \A a \in DOMAIN assets :
       journey_events[a] # <<>> =>
         LET events == get_asset_journey(Store, a).events IN
         /\ Len(events) = Len(journey_events[a])
         /\ \A i \in DOMAIN events :
              events[i] = _to_journey_event(journey_events[a][i])
         /\ \A i, j \in DOMAIN events :
              i < j => events[i].created_at < events[j].created_at

\* an asset with a journal of four events, which GetJourney returns from
\* the creation to the last audit
JournalOfFourReturned ==
  \E a \in DOMAIN assets :
    /\ Len(journey_events[a]) = 4
    /\ Len(get_asset_journey(Store, a).events) = 4
    /\ get_asset_journey(Store, a).events[1].event_type = ASSET_CREATED
    /\ get_asset_journey(Store, a).events[2].event_type = REVIEW_A_APPROVED
    /\ get_asset_journey(Store, a).events[4].created_at = 4

\* C14: for every stored asset, with events or without (an asset older than
\* the journal), GetJourney succeeds with a sequence that is not empty and
\* whose last event ends in the asset's current status.
JourneyEndsInCurrentStatus ==
  \A a \in DOMAIN assets :
    /\ get_asset_journey(Store, a).status_code = 200
    /\ get_asset_journey(Store, a).events # <<>>
    /\ LastOf(get_asset_journey(Store, a).events).to_status
         = assets[a].workflow_status

\* an asset older than the journal that has been reviewed since, so that its
\* journal begins with the review, beside an asset created with its journal
OldAssetReviewed ==
  /\ Len(assets) = 2
  /\ journey_events[1] # <<>>
  /\ journey_events[1][1].event_type # ASSET_CREATED
  /\ assets[1].workflow_status \in TerminalStatuses
  /\ LastOf(get_asset_journey(Store, 1).events).to_status
       = assets[1].workflow_status
  /\ get_asset_journey(Store, 2).events[1].event_type = ASSET_CREATED

\* C15: for an asset without a stored event, GetJourney returns exactly one
\* event: ASSET_CREATED, from no status to the asset's current status, by the
\* asset's creator, with the payload legacy = true; the event is not stored.
LegacyEventIsSynthesized ==
  \A a \in DOMAIN assets :
    journey_events[a] = <<>> =>
      LET r == get_asset_journey(Store, a) IN
      /\ r.status_code = 200
      /\ Len(r.events) = 1
      /\ r.events[1].event_type = ASSET_CREATED
      /\ r.events[1].from_status = None
      /\ r.events[1].to_status = assets[a].workflow_status
      /\ r.events[1].actor_id = assets[a].created_by_id
      /\ r.events[1].payload = [legacy |-> TRUE]
      /\ NothingChanged(r)

\* an approved asset without a stored event, beside an asset created since:
\* its journey is the one made-up event, and no event is stored for it
LegacyJourneyShown ==
  \E a \in DOMAIN assets :
    /\ Len(assets) >= 2
    /\ journey_events[a] = <<>>
    /\ assets[a].workflow_status = APPROVED
    /\ get_asset_journey(Store, a).events[1].to_status = APPROVED
    /\ get_asset_journey(Store, a).events[1].id = <<"legacy", a>>

\* an asset that was created, passed on by stage A, audited once with the
\* verdict FAIL and then rejected by stage B
FailedAndRejected(a) ==
  /\ assets[a].workflow_status = REJECTED
  /\ assets[a].reviewer_a_id = APPROVER_A
  /\ assets[a].reviewer_b_id = APPROVER_B
  /\ Len(audits[a]) = 1
  /\ audits[a][1].verdict = FAIL

\* C16, as stated: an asset created in PENDING_A, moved to PENDING_B by stage
\* A, audited once with the verdict FAIL and then rejected by stage B has a
\* journal of exactly 3 events, the status REJECTED and a rejection_reason
\* that is not null.
EndToEndJournalOfThree ==
  \A a \in DOMAIN assets :
    FailedAndRejected(a) =>
      /\ Len(journey_events[a]) = 3
      /\ assets[a].workflow_status = REJECTED
      /\ assets[a].rejection_reason # None

\* C16, amended: such an asset has a journal of exactly 4 events: the
\* creation, the approval by stage A, the audit and the rejection by stage
\* B, each from the status the one before it ended in; its status is
\* REJECTED and its rejection_reason is the reason of the stage-B request.
EndToEndJournalOfFour ==
  \A a \in DOMAIN assets :
    FailedAndRejected(a) =>
      /\ Len(journey_events[a]) = 4
      /\ [i \in 1..4 |-> journey_events[a][i].event_type]
           = <<ASSET_CREATED, REVIEW_A_APPROVED, AUDIT_FAIL, AUDIT_FAIL>>
      /\ [i \in 1..4 |-> journey_events[a][i].from_status]
           = <<None, PENDING_A, PENDING_B, PENDING_B>>
      /\ [i \in 1..4 |-> journey_events[a][i].to_status]
           = <<PENDING_A, PENDING_B, PENDING_B, REJECTED>>
      /\ journey_events[a][3].payload.audit_id = audits[a][1].id
      /\ assets[a].workflow_status = REJECTED
      /\ assets[a].rejection_reason = journey_events[a][4].payload.rejection_reason

\* the end-to-end run, with a reason given by stage B
EndToEndRun ==
  \E a \in DOMAIN assets :
    /\ FailedAndRejected(a)
    /\ assets[a].rejection_reason = "off-brand"
    /\ journey_events[a][4].actor_id = APPROVER_B

\* the outcome of the review a client has loaded the asset for, on what it
\* loaded
ReviewLoaded(c, payload) ==
  IF sessions[c].op = REVIEW_A
  THEN review_by_approver_a(sessions[c].view, sessions[c].asset_id, payload,
                            APPROVER_A)
  ELSE review_by_approver_b(sessions[c].view, sessions[c].asset_id, payload,
                            APPROVER_B)

\* the tables after the client's review with that payload ends now
AfterReview(c, payload) ==
  Committed(Store, sessions[c].view, ReviewLoaded(c, payload), sessions[c].asset_id)

\* C17: there is no guard on the status between the read and the commit: a
\* review that passes its checks on the status it has read commits whatever
\* has been committed since: the asset gets its decision and the journal one
\* more event, from the status the review read.  So two reviews of one asset
\* that both read before either commits both succeed.
NoGuardBetweenReadAndCommit ==
  \A c \in Clients, p \in ReviewPayloads :
    (/\ sessions[c].pc = "loaded"
     /\ sessions[c].op \in {REVIEW_A, REVIEW_B}
     /\ ReviewLoaded(c, p).status_code = 200) =>
      /\ AfterReview(c, p).assets[sessions[c].asset_id].workflow_status = p.decision
      /\ OneRowMore(AfterReview(c, p).journey_events[sessions[c].asset_id],
                    journey_events[sessions[c].asset_id])
      /\ LastOf(AfterReview(c, p).journey_events[sessions[c].asset_id]).from_status
           = sessions[c].view.assets[sessions[c].asset_id].workflow_status
      /\ LastOf(AfterReview(c, p).journey_events[sessions[c].asset_id]).to_status
           = p.decision

\* two stage-A reviews of one asset have both succeeded, one approving and
\* one rejecting, and the journal holds two events from PENDING_A
BothReviewsCommitted ==
  /\ \A c \in Clients :
       /\ sessions[c].pc = "done"
       /\ sessions[c].op = REVIEW_A
       /\ sessions[c].asset_id = 1
       /\ sessions[c].status_code = 200
  /\ Len(journey_events[1]) = 3
  /\ journey_events[1][2].from_status = PENDING_A
  /\ journey_events[1][3].from_status = PENDING_A
  /\ {journey_events[1][2].event_type, journey_events[1][3].event_type}
       = {REVIEW_A_APPROVED, REVIEW_A_REJECTED}

\* event i of a journal made the asset terminal
MadeTerminal(journal, i) ==
  /\ journal[i].to_status \in TerminalStatuses
  /\ journal[i].from_status # journal[i].to_status

\* event j of a journal is the event of an audit
OfAnAudit(journal, j) == "audit_id" \in DOMAIN journal[j].payload

\* C18: for every interleaving of an audit with a stage-B review of the same
\* asset, after both have finished the last event of the journal ends in the
\* asset's status, and no event of an audit comes after the event that made
\* the asset terminal.
JourneyConsistentWhenInterleaved ==
  \A a \in DOMAIN assets :
    (/\ \A c \in Clients : sessions[c].pc = "done" /\ sessions[c].asset_id = a
     /\ {sessions[c].op : c \in Clients} = {AUDIT, REVIEW_B}) =>
      /\ LastOf(journey_events[a]).to_status = assets[a].workflow_status
      /\ \A i, j \in DOMAIN journey_events[a] :
           (i < j /\ MadeTerminal(journey_events[a], i))
             => ~OfAnAudit(journey_events[a], j)

\* the places in the chunk table of the chunks stored under a scope
ChunksOfScope(scope_id) ==
  {j \in DOMAIN chunks : chunks[j].manual_id = scope_id}

\* C19: retrieval is strictly scoped: after any sequence of index calls over
\* several scopes, every result either branch can give for a scope holds only
\* texts of chunks stored under that scope, whatever the embeddings and the
\* query; and no step, a retrieval least of all, changes a stored chunk.
RetrievalIsScoped ==
  /\ [](\A d \in Dialects, m \in ManualIds, q \in QueryEmbeddings, k \in 0..MaxTopK :
          \A r \in retrieve_results(Store, d, m, q, k) :
            /\ r.ok
            /\ \A i \in DOMAIN r.texts :
                 \E j \in ChunksOfScope(m) : chunks[j].chunk_text = r.texts[i])
  /\ [][\A j \in DOMAIN chunks : j \in DOMAIN chunks' /\ chunks'[j] = chunks[j]]_vars

\* two scopes, the first of which holds the chunk nearest to the query: the
\* retrieval for the second returns the second's chunks, on both branches
NearestChunkIsOfAnotherScope ==
  /\ Len(manuals) = 2
  /\ \E j \in ChunksOfScope(1) : chunks[j].embedding = <<1, 0>>
  /\ \A j \in ChunksOfScope(2) : chunks[j].embedding = <<-1, 0>>
  /\ \A d \in Dialects :
       \A r \in retrieve_results(Store, d, 2, <<1, 0>>, MaxTopK) :
         /\ Len(r.texts) = Cardinality(ChunksOfScope(2))
         /\ \A i \in DOMAIN r.texts :
              \E j \in ChunksOfScope(2) : chunks[j].chunk_text = r.texts[i]

\* The vectors of RankEmbeddings and QueryEmbeddings lie at multiples of 45
\* degrees: the direction of each, in eighths of a turn.
Direction(v) ==
  CASE v = <<1, 0>> -> 0
    [] v = <<2, 0>> -> 0
    [] v = <<1, 1>> -> 1
    [] v = <<0, 1>> -> 2
    [] v = <<-1, 0>> -> 4

\* the cosine of k eighths of a turn, in thousandths
Cos1000 == <<707, 0, -707, -1000, -707, 0, 707, 1000>>

\* the cosine distance of a to q in thousandths; a zero vector counts as a
\* vector of norm 1, which makes its distance 1
Distance1000(a, q) ==
  IF a = <<0, 0>> \/ q = <<0, 0>> THEN 1000
  ELSE 1000 - Cos1000[IF Direction(a) = Direction(q) THEN 8
                      ELSE (Direction(a) - Direction(q)) % 8]

\* chunk i of the table comes before chunk j in the ranking for the query q:
\* it is nearer, or as near and stored earlier
RankedBefore(i, j, q) ==
  \/ Distance1000(chunks[i].embedding, q) < Distance1000(chunks[j].embedding, q)
  \/ /\ Distance1000(chunks[i].embedding, q) = Distance1000(chunks[j].embedding, q)
     /\ i < j

\* the chunk of the scope that has n - 1 chunks of the scope before it
RankedAt(scope_id, q, n) ==
  CHOOSE j \in ChunksOfScope(scope_id) :
    Cardinality({i \in ChunksOfScope(scope_id) : RankedBefore(i, j, q)}) = n - 1

\* the texts r are of chunks of the scope, each once, none farther than the
\* next, and no chunk left out is nearer than one taken
NearestAscending(scope_id, q, texts) ==
  \E taken \in [DOMAIN texts -> ChunksOfScope(scope_id)] :
    /\ \A i \in DOMAIN texts : chunks[taken[i]].chunk_text = texts[i]
    /\ \A i, j \in DOMAIN texts :
         i < j => /\ taken[i] # taken[j]
                  /\ Distance1000(chunks[taken[i]].embedding, q)
                       <= Distance1000(chunks[taken[j]].embedding, q)
    /\ \A u \in ChunksOfScope(scope_id) \ {taken[i] : i \in DOMAIN texts} :
         \A i \in DOMAIN texts :
           Distance1000(chunks[taken[i]].embedding, q)
             <= Distance1000(chunks[u].embedding, q)

\* the chunks of a scope and the query have a cosine distance as the store
\* computes it: none is the zero vector
DistanceDefined(scope_id, q) ==
  /\ q # <<0, 0>>
  /\ \A j \in ChunksOfScope(scope_id) : chunks[j].embedding # <<0, 0>>

NativeAndFallbackRankAlike ==
  \A m \in ManualIds, q \in QueryEmbeddings, k \in 0..MaxTopK :
    retrieve_relevant_chunks_postgresql(Store, m, q, k)
      = {retrieve_relevant_chunks(Store, m, q, k)}

\* the chunk_index values of the chunks of a scope, in insertion order
ChunkIndexes(scope_id) ==
  [i \in 1..Len(ScopeRows(Store, scope_id)) |-> ScopeRows(Store, scope_id)[i].chunk_index]

\* C22: after any sequence of index calls, more than one for a scope
\* included, the chunk_index values of the chunks of each scope are 0..n-1
\* in insertion order (so pairwise distinct), and no step changes a chunk
\* that is stored.
ChunkIndexIsOrdinal ==
  /\ [](\A m \in ManualIds :
          \A i \in DOMAIN ChunkIndexes(m) : ChunkIndexes(m)[i] = i - 1)
  /\ [][\A j \in DOMAIN chunks : j \in DOMAIN chunks' /\ chunks'[j] = chunks[j]]_vars

\* the elements of a set of numbers, ascending
Ascending(S) ==
  [k \in 1..Cardinality(S) |-> CHOOSE x \in S : Cardinality({y \in S : y < x}) = k - 1]

\* the parts of a text as the chunker measures them: split on the separator,
\* trimmed, the empty ones discarded, each prefixed with the separator and
\* trimmed again
Pieces(content_text, separator) ==
  [i \in 1..Len(StrippedParts(split(content_text, separator))) |->
     strip(separator \o StrippedParts(split(content_text, separator))[i])]

\* the pieces grouped into buffers that end after the pieces numbered in
\* ends, the pieces of a buffer joined by a blank line
Buffers(pieces, ends) ==
  [k \in 1..Len(ends) |->
     join("\n\n", SubSeq(pieces, IF k = 1 THEN 1 ELSE ends[k - 1] + 1, ends[k]))]

\* a buffer is flushed exactly when the next piece would make it longer
\* than max_chars: a buffer of several pieces fits, and a flushed buffer
\* with the next piece appended does not
FlushedWhenFull(pieces, ends, max_chars) ==
  \A k \in 1..Len(ends) :
    /\ (k < Len(ends)) =>
         Len(Buffers(pieces, ends)[k] \o "\n\n" \o pieces[ends[k] + 1]) > max_chars
    /\ (ends[k] > (IF k = 1 THEN 1 ELSE ends[k - 1] + 1)) =>
         Len(Buffers(pieces, ends)[k]) <= max_chars

ThreeParts == Called("a\n\nb\n\nc", 4, DEFAULT_SEPARATOR)
ShortText == Called("short text", 100, DEFAULT_SEPARATOR)

\* C23 as stated: the chunker gives three chunks for "a\n\nb\n\nc" with
\* max_chars 4 and the separator "\n\n", and for "short text" with
\* max_chars 100 one chunk, the trimmed input.
ExamplesThreeAndOne ==
  /\ (call = Returned(ThreeParts)) => Len(call.chunked) = 3
  /\ (call = Returned(ShortText)) => call.chunked = <<strip(call.content_text)>>

\* C23: the chunker flushes the buffer exactly when appending the next
\* part would exceed max_chars: the chunks are the pieces grouped greedily.
\* For "a\n\nb\n\nc" with max_chars 4 and the separator "\n\n" that gives
\* two chunks, "a\n\nb" (4 characters) and "c"; a text without separator,
\* "short text" with max_chars 100 for one, gives one chunk, the trimmed
\* input.
FlushesWhenNextPartExceeds ==
  /\ (call.pc = "returned" /\ Pieces(call.content_text, call.separator) # <<>>) =>
       \E cuts \in SUBSET (1..(Len(Pieces(call.content_text, call.separator)) - 1)) :
         LET pieces == Pieces(call.content_text, call.separator)
             ends == Ascending(cuts \cup {Len(pieces)})
         IN /\ call.chunked = Buffers(pieces, ends)
            /\ FlushedWhenFull(pieces, ends, call.max_chars)
  /\ (call = Returned(ThreeParts)) => call.chunked = <<"a\n\nb", "c">>
  /\ (/\ call.pc = "returned"
      /\ call.separator = DEFAULT_SEPARATOR
      /\ Find(call.content_text, DEFAULT_SEPARATOR, 1) = 0
      /\ strip(call.content_text) # "") =>
       call.chunked = <<strip(call.content_text)>>

\* the first example has returned, with two chunks
TwoChunksOfThreeParts ==
  /\ call = Returned(ThreeParts)
  /\ call.chunked = <<"a\n\nb", "c">>

\* splitting the text yields no usable part: every part is empty or white
\* space (the empty text, or separators and white space only)
NoUsablePart(content_text, separator) ==
  \A i \in DOMAIN split(content_text, separator) :
    strip(split(content_text, separator)[i]) = ""

\* C24 as stated: for every text, max_chars and separator the chunker
\* returns at least one chunk, and the text itself as the one chunk when
\* splitting yields no usable part.
AlwaysAtLeastOneChunk ==
  (call.pc # "called") =>
    /\ call.pc = "returned"
    /\ Len(call.chunked) >= 1
    /\ NoUsablePart(call.content_text, call.separator) =>
         call.chunked = <<call.content_text>>

\* C24: for every text, every max_chars and every separator that is not
\* empty the chunker returns at least one chunk, and when splitting yields
\* no usable part (the empty text, or separators and white space only) the
\* one chunk is the text verbatim; with the empty separator it returns
\* nothing and raises.
AtLeastOneChunk ==
  (call.pc # "called") =>
    IF call.separator = "" THEN call.pc = "ValueError"
    ELSE /\ call.pc = "returned"
         /\ Len(call.chunked) >= 1
         /\ NoUsablePart(call.content_text, call.separator) =>
              call.chunked = <<call.content_text>>

\* a text of separators and white space has come back as the one chunk
SeparatorsOnlyReturnedWhole ==
  /\ call.pc = "returned"
  /\ call.content_text = "\n\n \n\n\n\n"
  /\ call.separator = DEFAULT_SEPARATOR
  /\ call.chunked = <<"\n\n \n\n\n\n">>

\* C25 as stated: every chunk the chunker returns is a non-empty string,
\* for every text, the empty text included.
EveryChunkNonEmpty ==
  (call.pc = "returned") => \A i \in DOMAIN call.chunked : call.chunked[i] # ""

\* C25: every chunk the chunker returns for a text that is not empty is a
\* non-empty string, texts of white space or separators only included; for
\* the empty text it returns one chunk, the empty string.
ChunksNonEmptyButOfEmptyText ==
  (call.pc = "returned") =>
    IF call.content_text = "" THEN call.chunked = <<"">>
    ELSE \A i \in DOMAIN call.chunked : call.chunked[i] # ""

\* the empty text has come back as one empty chunk
EmptyTextReturnedAsChunk ==
  /\ call.pc = "returned"
  /\ call.content_text = ""
  /\ call.chunked = <<"">>

\* C26 as stated: every chunk the chunker returns has at most max_chars
\* characters, for every text, texts with a part longer than max_chars
\* included.
ChunksWithinMaxChars ==
  (call.pc = "returned") =>
    \A i \in DOMAIN call.chunked : Len(call.chunked[i]) <= call.max_chars

\* C26: every chunk the chunker returns has at most max_chars characters
\* unless it holds one part only: a chunk longer than max_chars is a single
\* part (with the separator in front, trimmed) that is longer than max_chars
\* by itself, or the whole text where the text has no usable part.
ChunksWithinMaxCharsButSingleParts ==
  (call.pc = "returned") =>
    \A i \in DOMAIN call.chunked :
      \/ Len(call.chunked[i]) <= call.max_chars
      \/ \E j \in DOMAIN Pieces(call.content_text, call.separator) :
           call.chunked[i] = Pieces(call.content_text, call.separator)[j]
      \/ /\ NoUsablePart(call.content_text, call.separator)
         /\ call.chunked = <<call.content_text>>

\* three parts of two characters with max_chars 1 have come back as three
\* chunks of two characters
LongPartsReturnedWhole ==
  /\ call.pc = "returned"
  /\ call.content_text = "ab\n\n\n\nba\n\nab"
  /\ call.separator = DEFAULT_SEPARATOR
  /\ call.max_chars = 1
  /\ call.chunked = <<"ab", "ba", "ab">>

\* text ends with part
EndsWith(text, part) ==
  /\ Len(part) <= Len(text)
  /\ SubSeq(text, Len(text) - Len(part) + 1, Len(text)) = part

\* C27: the chunker drops and reorders nothing: the trimmed non-empty parts
\* of the text, each with the separator in front, are spread over the chunks
\* in their order, each in exactly one chunk, the parts of a chunk a blank
\* line apart, and every chunk holds a part; the same call returns the same
\* chunks.
PartsKeptInOrder ==
  (call.pc = "returned") =>
    /\ call = Returned(Called(call.content_text, call.max_chars, call.separator))
    /\ ~NoUsablePart(call.content_text, call.separator) =>
         LET parts == StrippedParts(split(call.content_text, call.separator))
             pieces == Pieces(call.content_text, call.separator)
         IN /\ \A i \in DOMAIN parts :
                 /\ EndsWith(pieces[i], parts[i])
                 /\ pieces[i] \in {parts[i], call.separator \o parts[i]}
            /\ \E cuts \in SUBSET (1..(Len(pieces) - 1)) :
                 call.chunked = Buffers(pieces, Ascending(cuts \cup {Len(pieces)}))

\* three parts, with an empty one among them in the text, have come back in
\* one chunk, in their order
ThreePartsInOneChunk ==
  /\ call.pc = "returned"
  /\ call.content_text = "ab\n\n\n\nba\n\nab"
  /\ call.separator = DEFAULT_SEPARATOR
  /\ call.chunked = <<"ab\n\nba\n\nab">>

\* the JSON object _extract_json_object recovers from the output of the
\* call, if it recovers one
Recovered == _extract_json_object(call.text_payload)

ObjectRecovered == Recovered.ok /\ Recovered.dict

\* the confidence member of the recovered object is missing, or is no
\* number and no string that reads as one
ConfidenceMissingOrNonNumeric ==
  LET c == DictGet(Recovered.members, "confidence", PyNull)
  IN \/ c.kind \in {"null", "list"}
     \/ c.kind = "str" /\ c.s \notin DOMAIN NumericStrings

\* C28: _parse_audit_decision never fails on a field value: for every output
\* from which a JSON object is recovered it returns an AuditDecision,
\* whatever the verdict, confidence and explanation members are (missing,
\* null, a string that is no number, a nested value), and a missing or
\* non-numeric confidence gives 0.5.
NeverFailsOnFieldValues ==
  (call.pc # "called" /\ ObjectRecovered) =>
    /\ call.pc = "returned"
    /\ ConfidenceMissingOrNonNumeric => call.result.decision.confidence = DEFAULT_CONFIDENCE

\* the output of the call, trimmed and without its fence
CleanedOutput == Unfenced(StripTokens(call.text_payload))

\* the span of a text from its first "{" to its last "}", empty if there is
\* none
GreedySpan(text) ==
  LET opens == {i \in DOMAIN text : text[i] = LBRACE}
      closes == {i \in DOMAIN text : text[i] = RBRACE}
  IN IF opens = {} \/ closes = {} \/ MaxOf(closes \cup {0}) < MinOf(opens \cup {Len(text)})
     THEN <<>>
     ELSE SubSeq(text, MinOf(opens), MaxOf(closes))

\* a JSON object can be recovered from the output: trimmed and unfenced it
\* is a JSON object, or it is no JSON at all and its greedy span is one
ObjectInOutput ==
  /\ CleanedOutput # <<>>
  /\ IF JsonLoads(CleanedOutput).ok THEN JsonLoads(CleanedOutput).dict
     ELSE /\ GreedySpan(CleanedOutput) # <<>>
          /\ JsonLoads(GreedySpan(CleanedOutput)).ok

\* the audit of the waiting asset for which the model gives the output of
\* the call
AuditOnOutput ==
  audit_with_image(Store, 1, APPROVER_B, <<1, 0>>, call.text_payload, 0)

\* C29: _parse_audit_decision fails exactly when no JSON object can be
\* recovered from the output (trim, strip the fence, parse, then parse the
\* greedy span): on an empty output, one without a span, one whose span does
\* not parse, and one that is JSON but no object; and it fails with an error
\* that audit_with_image turns into the bad-gateway response.
FailsExactlyWhenNoObject ==
  (call.pc # "called") =>
    /\ ~ObjectInOutput =>
         /\ call.pc = "raised"
         /\ (call.text_payload # NoAnswer) => AuditOnOutput.status_code = 502
    /\ ObjectInOutput => call.pc = "returned"

\* the verdict members of the recovered object, in their order
VerdictMembers ==
  SelectSeq(Recovered.members, LAMBDA tok : Members[tok].key = "verdict")

\* the verdict of the recovered object is the literal "check" (of a key
\* that is repeated the last member counts)
VerdictIsCheckLiteral ==
  /\ VerdictMembers # <<>>
  /\ LastOf(VerdictMembers) = "\"verdict\":\"check\""

\* C30: the verdict default is fail-safe: when _parse_audit_decision
\* returns, the verdict is CHECK if the verdict member of the object is
\* exactly the literal "check" and FAIL for everything else (absent, null,
\* "CHECK", "fail"); and an audit persists a row with the verdict CHECK only
\* for a model output whose verdict is exactly "check".
VerdictDefaultIsFailSafe ==
  /\ (call.pc = "returned") =>
       call.result.decision.verdict = IF VerdictIsCheckLiteral THEN CHECK ELSE FAIL
  /\ (call.pc # "called" /\ call.text_payload # NoAnswer) =>
       \A i \in DOMAIN AuditOnOutput.store.audits[1] :
         AuditOnOutput.store.audits[1][i].verdict = CHECK =>
           /\ ObjectRecovered
           /\ VerdictIsCheckLiteral

\* an output whose verdict is "CHECK" in capitals has been parsed, with the
\* verdict FAIL, and the audit persists FAIL for it
VerdictInCapitalsGivesFail ==
  /\ call.pc = "returned"
  /\ VerdictMembers = <<"\"verdict\":\"CHECK\"">>
  /\ call.result.decision.verdict = FAIL
  /\ AuditOnOutput.status_code = 200
  /\ LastOf(AuditOnOutput.store.audits[1]).verdict = FAIL

\* the confidence members of the recovered object, in their order
ConfidenceMembers ==
  SelectSeq(Recovered.members, LAMBDA tok : Members[tok].key = "confidence")

\* the confidence of the recovered object is written as the token says
ConfidenceWritten(tok) ==
  ConfidenceMembers # <<>> /\ LastOf(ConfidenceMembers) = tok

\* C31: the confidence of every AuditDecision, and of every audit that is
\* persisted, lies in [0.0, 1.0] (here in hundredths): 1.5 is clamped to
\* 1.0, -3 to 0.0, and 0.87 is kept.
ConfidenceIsClamped ==
  /\ (call.pc = "returned") =>
       /\ call.result.decision.confidence \in 0..100
       /\ ConfidenceWritten("\"confidence\":1.5") => call.result.decision.confidence = 100
       /\ ConfidenceWritten("\"confidence\":-3") => call.result.decision.confidence = 0
       /\ ConfidenceWritten("\"confidence\":0.87") => call.result.decision.confidence = 87
  /\ (call.pc # "called" /\ call.text_payload # NoAnswer) =>
       \A i \in DOMAIN AuditOnOutput.store.audits[1] :
         AuditOnOutput.store.audits[1][i].confidence \in 0..100

\* an output with the confidence -3 has been parsed and the audit persists
\* the confidence 0.0 for it
NegativeConfidenceClamped ==
  /\ call.pc = "returned"
  /\ ConfidenceWritten("\"confidence\":-3")
  /\ call.result.decision.confidence = 0
  /\ AuditOnOutput.status_code = 200
  /\ LastOf(AuditOnOutput.store.audits[1]).confidence = 0

\* the explanation members of the recovered object, in their order
ExplanationMembers ==
  SelectSeq(Recovered.members, LAMBDA tok : Members[tok].key = "explanation")

\* C32: the explanation of every AuditDecision, and of every audit that is
\* persisted, is a non-empty string, the placeholder when the object has no
\* explanation member, whatever the explanation of the recovered object is
\* (null and the empty string included).
ExplanationIsNonEmpty ==
  /\ (call.pc = "returned") =>
       /\ call.result.decision.explanation.kind = "str"
       /\ call.result.decision.explanation.s # ""
       /\ (ExplanationMembers = <<>>) =>
            call.result.decision.explanation = PyStr(DEFAULT_EXPLANATION)
  /\ (call.pc # "called" /\ call.text_payload # NoAnswer) =>
       \A i \in DOMAIN AuditOnOutput.store.audits[1] :
         AuditOnOutput.store.audits[1][i].explanation # ""

\* a body in a code fence, with or without the label json, with or without
\* white space between the markers and the body
Fenced(body) ==
  {<<FENCE>> \o label \o before \o body \o after \o <<FENCE>> :
     label \in {<<>>, <<JSONWORD>>}, before \in {<<>>, <<WS>>}, after \in {<<>>, <<WS>>}}

BeginsLikeAFence ==
  /\ StripTokens(call.text_payload) # <<>>
  /\ StripTokens(call.text_payload)[1] \in {FENCE, JSONWORD}

ApprovedOnlyAfterAudit ==
  \A a \in DOMAIN assets :
    (assets[a].workflow_status = APPROVED) =>
      /\ Len(audits[a]) >= 1
      /\ \E i \in DOMAIN journey_events[a] :
           /\ journey_events[a][i].from_status = PENDING_B
           /\ journey_events[a][i].to_status = PENDING_B

\* the events GetJourney returns for an asset
Journey(a) == get_asset_journey(Store, a).events

\* the event is the creation event: ASSET_CREATED from no status
IsCreation(event) == event.event_type = ASSET_CREATED /\ event.from_status = None

\* a successful generate_asset leaves a new asset in PENDING_A with a
\* journal of one event, ASSET_CREATED from no status to PENDING_A
GenerateStartsJourney ==
  \A p \in GeneratePayloads, o \in GenerateOutcomes :
    (Generate(p, o).status_code = 200) =>
      LET db == Generate(p, o).store
          a == Len(assets) + 1
      IN /\ Len(db.assets) = a
         /\ db.assets[a].workflow_status = PENDING_A
         /\ Len(db.journey_events[a]) = 1
         /\ IsCreation(db.journey_events[a][1])
         /\ db.journey_events[a][1].to_status = PENDING_A

\* C35 as stated: a successful generate_asset starts the journal with the
\* one creation event, and for every asset, one that had no stored event
\* when it was first reviewed included, the first event GetJourney returns
\* is ASSET_CREATED and is the only event from no status.
JourneyStartsWithCreation ==
  /\ GenerateStartsJourney
  /\ \A a \in DOMAIN assets :
       /\ IsCreation(Journey(a)[1])
       /\ \A i \in DOMAIN Journey(a) : Journey(a)[i].from_status = None => i = 1

\* C35: a successful generate_asset starts the journal with the one
\* creation event, and the first event GetJourney returns for an asset
\* created so is that event; for an asset that is older than the journal
\* the first event is ASSET_CREATED (the made-up one) only as long as no
\* event is stored for it, and from then on its journey begins with the
\* first stored event and has no creation event.  In every journey only a
\* creation event, the first, is from no status.
JourneyStartsWithCreationIfJournaled ==
  /\ GenerateStartsJourney
  /\ \A a \in DOMAIN assets :
       /\ Journey(a) # <<>>
       /\ (a # 1 \/ journey_events[a] = <<>>) => IsCreation(Journey(a)[1])
       /\ (a = 1 /\ journey_events[a] # <<>>) =>
            /\ Journey(a)[1].event_type # ASSET_CREATED
            /\ Journey(a)[1].from_status = journey_events[a][1].from_status
       /\ \A i \in DOMAIN Journey(a) :
            (Journey(a)[i].from_status = None \/ Journey(a)[i].event_type = ASSET_CREATED)
              => (i = 1 /\ IsCreation(Journey(a)[i]))

\* the asset older than the journal has been passed on by stage A, and its
\* journey begins with that review; beside it an asset created since, whose
\* journey begins with its creation
OldJourneyBeginsWithReview ==
  /\ Len(assets) = 2
  /\ Journey(1)[1].event_type = REVIEW_A_APPROVED
  /\ Journey(1)[1].from_status = PENDING_A
  /\ IsCreation(Journey(2)[1])

\* a rejection that gives no reason: the field absent, or empty
WithoutReason(reason) == [decision |-> REJECTED, rejection_reason |-> reason]

\* C36: a stage-B review that rejects an asset waiting for stage B without
\* a reason, absent or empty, succeeds: the asset becomes REJECTED with
\* the reviewer recorded and the reason as sent (null or empty), exactly
\* one event is appended to its journal, from PENDING_B to REJECTED, and
\* nothing else changes; the same request made at stage A for the same
\* asset is refused as a bad request and changes nothing.
RejectionByBNeedsNoReason ==
  \A a \in DOMAIN assets, reason \in {None, ""} :
    assets[a].workflow_status = PENDING_B =>
      LET r == ReviewB(a, WithoutReason(reason)) IN
      /\ r.status_code = 200
      /\ r.store.assets =
           [assets EXCEPT ![a] = [@ EXCEPT !.workflow_status = REJECTED,
                                           !.reviewer_b_id = APPROVER_B,
                                           !.rejection_reason = reason]]
      /\ Len(r.store.journey_events[a]) = Len(journey_events[a]) + 1
      /\ JournalsOnlyGrow(r)
      /\ \A b \in DOMAIN assets \ {a} : r.store.journey_events[b] = journey_events[b]
      /\ LastOf(r.store.journey_events[a]).from_status = PENDING_B
      /\ LastOf(r.store.journey_events[a]).to_status = REJECTED
      /\ LastOf(r.store.journey_events[a]).payload.rejection_reason = reason
      /\ r.store.audits = audits
      /\ ReviewA(a, WithoutReason(reason)).status_code = 400
      /\ ReviewA(a, WithoutReason(reason)).detail = "rejection_reason required when rejected"
      /\ NothingChanged(ReviewA(a, WithoutReason(reason)))

\* an asset waiting for stage B that stage B rejects with the empty reason
\* and with no reason, and that stage A is refused to reject so
RejectedByBWithoutReason ==
  \E a \in DOMAIN assets :
    /\ assets[a].workflow_status = PENDING_B
    /\ ReviewB(a, WithoutReason("")).store.assets[a].workflow_status = REJECTED
    /\ ReviewB(a, WithoutReason("")).store.assets[a].rejection_reason = ""
    /\ ReviewB(a, WithoutReason(None)).store.assets[a].rejection_reason = None
    /\ ReviewA(a, WithoutReason(None)).status_code = 400

\* the events of an asset's stored journal that change the status: those
\* that come from a status and go to another (the creation event, which
\* comes from no status, gives the asset its first status)
StatusChanges(a) ==
  {i \in DOMAIN journey_events[a] :
     /\ journey_events[a][i].from_status # None
     /\ journey_events[a][i].from_status # journey_events[a][i].to_status}

\* C37: the stored journal of every asset is a chain that can be replayed:
\* each event after the first comes from the status the event before it
\* went to, only the first event comes from no status, every event that
\* changes the status follows an edge of the transition table, and at
\* most two events of an asset change the status.
JournalIsReplayableChain ==
  \A a \in DOMAIN journey_events :
    /\ \A i \in 2..Len(journey_events[a]) :
         journey_events[a][i].from_status = journey_events[a][i - 1].to_status
    /\ \A i \in DOMAIN journey_events[a] :
         journey_events[a][i].from_status = None => i = 1
    /\ \A i \in StatusChanges(a) :
         <<journey_events[a][i].from_status, journey_events[a][i].to_status>>
           \in TableEdges
    /\ Cardinality(StatusChanges(a)) <= 2

\* a journal of four events: the creation, the two reviews, which change
\* the status, and between them an audit, which comes from and goes to
\* PENDING_B
ChainOfTwoChangesAndAnAudit ==
  \E a \in DOMAIN journey_events :
    /\ Len(journey_events[a]) = 4
    /\ StatusChanges(a) = {2, 4}
    /\ journey_events[a][3].from_status = PENDING_B
    /\ journey_events[a][3].to_status = PENDING_B
    /\ journey_events[a][4].from_status = PENDING_B

\* C38: in every state reached from assets that generate_asset created, by
\* requests that do not overlap, an APPROVED asset has no rejection
\* reason and has both reviewers, an asset in PENDING_B has the reviewer
\* of stage A and none of stage B, and an asset in PENDING_A has neither.
ReviewersFollowStatus ==
  \A a \in DOMAIN assets :
    /\ assets[a].workflow_status = APPROVED =>
         /\ assets[a].rejection_reason = None
         /\ assets[a].reviewer_a_id # None
         /\ assets[a].reviewer_b_id # None
    /\ assets[a].workflow_status = PENDING_B =>
         /\ assets[a].reviewer_a_id # None
         /\ assets[a].reviewer_b_id = None
    /\ assets[a].workflow_status = PENDING_A =>
         /\ assets[a].reviewer_a_id = None
         /\ assets[a].reviewer_b_id = None

\* an asset that stage A passed on with a reason, which it stored, and
\* that stage B then approved: it has both reviewers and no reason; beside
\* it an asset that nobody has reviewed
ApprovedAfterReasonAtStageA ==
  /\ \E a \in DOMAIN assets :
       /\ assets[a].workflow_status = APPROVED
       /\ journey_events[a][2].payload.rejection_reason = "off-brand"
       /\ assets[a].rejection_reason = None
       /\ assets[a].reviewer_a_id = APPROVER_A
       /\ assets[a].reviewer_b_id = APPROVER_B
  /\ \E a \in DOMAIN assets : assets[a].workflow_status = PENDING_A

\* the events of an asset's journal that come from PENDING_B and go to it
AuditEvents(a) ==
  {i \in DOMAIN journey_events[a] :
     /\ journey_events[a][i].from_status = PENDING_B
     /\ journey_events[a][i].to_status = PENDING_B}

\* an audit in which every collaborator works and the model answers with
\* a decision
AuditThatWorks ==
  [query_embedding |-> <<1, 0>>,
   raw_result |-> <<LBRACE, "\"verdict\":\"check\"", "\"confidence\":0.87",
                    "\"explanation\":\"ok\"", RBRACE>>,
   annotate_raises |-> 0]

\* C39: an asset has as many audit records as its journal has events from
\* PENDING_B to PENDING_B; the audit_id in the payload of each such event
\* is the id of a stored audit of the same asset with the verdict of the
\* event, no two such events name the same audit and no two audits have
\* the same id; and an asset in PENDING_B can be audited again however
\* many audits it has: the audit adds one more record.
AuditsMatchAuditEvents ==
  \A a \in DOMAIN assets :
    /\ Cardinality(AuditEvents(a)) = Len(audits[a])
    /\ \A i \in AuditEvents(a) :
         \E k \in DOMAIN audits[a] :
           /\ audits[a][k].id = journey_events[a][i].payload.audit_id
           /\ audits[a][k].asset_id = a
           /\ audits[a][k].verdict = journey_events[a][i].payload.verdict
           /\ journey_events[a][i].event_type
                = (IF audits[a][k].verdict = CHECK THEN AUDIT_CHECK ELSE AUDIT_FAIL)
    /\ \A i, j \in AuditEvents(a) :
         journey_events[a][i].payload.audit_id = journey_events[a][j].payload.audit_id
           => i = j
    /\ \A k, l \in DOMAIN audits[a] : audits[a][k].id = audits[a][l].id => k = l
    /\ assets[a].workflow_status = PENDING_B =>
         /\ Audit(a, AuditThatWorks).status_code = 200
         /\ Len(Audit(a, AuditThatWorks).store.audits[a]) = Len(audits[a]) + 1

\* an asset with two audits, named in this order by the third and the
\* fourth event of its journal, that can be audited once more
TwoAuditsNamedByTwoEvents ==
  \E a \in DOMAIN assets :
    /\ Len(audits[a]) = 2
    /\ AuditEvents(a) = {3, 4}
    /\ journey_events[a][3].payload.audit_id = audits[a][1].id
    /\ journey_events[a][4].payload.audit_id = audits[a][2].id
    /\ audits[a][1].id # audits[a][2].id
    /\ Len(Audit(a, AuditThatWorks).store.audits[a]) = 3

\* the event a call has appended to the journal of an asset
Appended(r, a) == LastOf(r.store.journey_events[a])

\* a call has written to the journal of an asset
Wrote(r, a) == Len(r.store.journey_events[a]) > Len(journey_events[a])

\* the events stage A writes are of its two types, and come from PENDING_A
StageAWritesFromPendingA ==
  \A a \in DOMAIN assets, p \in ReviewPayloads :
    Wrote(ReviewA(a, p), a) =>
      /\ Appended(ReviewA(a, p), a).event_type \in {REVIEW_A_APPROVED, REVIEW_A_REJECTED}
      /\ Appended(ReviewA(a, p), a).from_status = PENDING_A

\* the events of the two audit types: the audit writes them from a status
\* to the same, stage B from PENDING_B to the status it decides, AUDIT_CHECK
\* to APPROVED and AUDIT_FAIL to REJECTED
AuditTypesSharedByAuditAndStageB ==
  /\ \A a \in DOMAIN assets, o \in AuditOutcomes :
       Wrote(Audit(a, o), a) =>
         /\ Appended(Audit(a, o), a).event_type \in {AUDIT_CHECK, AUDIT_FAIL}
         /\ Appended(Audit(a, o), a).from_status = Appended(Audit(a, o), a).to_status
  /\ \A a \in DOMAIN assets, p \in ReviewPayloads :
       Wrote(ReviewB(a, p), a) =>
         /\ Appended(ReviewB(a, p), a).from_status = PENDING_B
         /\ <<Appended(ReviewB(a, p), a).event_type, Appended(ReviewB(a, p), a).to_status>>
              \in {<<AUDIT_CHECK, APPROVED>>, <<AUDIT_FAIL, REJECTED>>}

\* C40: the type of a journal event tells its writer only together with
\* its statuses.  Stage A alone writes REVIEW_A_APPROVED and
\* REVIEW_A_REJECTED, and it writes them from PENDING_A; an AUDIT_CHECK or
\* AUDIT_FAIL event from a status to the same is written by the audit alone,
\* and one from PENDING_B to APPROVED (AUDIT_CHECK) or to REJECTED
\* (AUDIT_FAIL) by stage B alone, which has no type of its own; so in every
\* journal each event of a stage-A type comes from PENDING_A.
EventTypesTellTheWriter ==
  /\ StageAWritesFromPendingA
  /\ AuditTypesSharedByAuditAndStageB
  /\ \A a \in DOMAIN journey_events : \A i \in DOMAIN journey_events[a] :
       LET e == journey_events[a][i] IN
       /\ e.event_type \in {REVIEW_A_APPROVED, REVIEW_A_REJECTED} =>
            e.actor_id = APPROVER_A /\ e.from_status = PENDING_A
       /\ e.event_type \in {AUDIT_CHECK, AUDIT_FAIL} =>
            /\ e.actor_id = APPROVER_B
            /\ \/ e.from_status = e.to_status
               \/ <<e.from_status, e.event_type, e.to_status>>
                    \in {<<PENDING_B, AUDIT_CHECK, APPROVED>>,
                         <<PENDING_B, AUDIT_FAIL, REJECTED>>}

====
